---- MODULE Spec2Model ----
(***************************************************************************)
(* Skill lifecycle engine of the operator ledger: the Active and           *)
(* Historical skill documents and the batch passes that rewrite them       *)
(* (decay / restoration, promotion / demotion, approved updates), the      *)
(* level gate checks, and the pure decision functions they are built on.   *)
(***************************************************************************)
EXTENDS Integers, Sequences, FiniteSets, TLC

VARIABLES
    today,        \* datetime.now() as a day number
    steps,        \* number of clock advances so far
    updates,      \* number of approved updates applied so far
    active,       \* ledger/skills/active.yaml
    historical,   \* ledger/skills/history.yaml
    lastOp,       \* outcome of the last script run
    report,       \* report returned by the last script run
    verdict,      \* per skill verdict of the last level gate run
    fin           \* input and result of the pure decision functions

vars == <<today, steps, updates, active, historical, lastOp, report, verdict, fin>>

\* ---------------------------------------------------------------- bounds
StartDay == 100
DayStep == 30
MaxSteps == 1
MaxFlags == 2
MaxUpdates == 1

Names == {"X", "Y"}
TechCat == "frameworks"
Orch == "orchestration"
FamSet == {TechCat, Orch}

NoDate == 0 - 1      \* key missing (None)
BadDate == 0 - 2     \* a string that is not an ISO date

IsDate(d) == d >= 0

Max2(a, b) == IF a >= b THEN a ELSE b
Min2(a, b) == IF a <= b THEN a ELSE b

\* ------------------------------------------------------- skill records
\* A skill entry of the YAML documents.  "absent" stands for a missing key.
NonEmptyOutcome == {"tests_passed", "production_deployed"}
NonEmptyEvidence == {"text", "metrics"}

SessionCount(s) == IF s.has_tm THEN s.session_count ELSE 0
LastSeen(s) == IF s.has_tm THEN s.last_seen ELSE NoDate
DecayApplied(s) == IF s.has_tm THEN s.decay_applied ELSE NoDate

\* -------------------------------------------- manage_skill_status.py
calculate_days_since(date_str, now) ==
    IF IsDate(date_str) THEN now - date_str ELSE 0

count_recent_sessions(skill, now) ==
    LET last_seen == LastSeen(skill)
        session_count == SessionCount(skill)
        frequency == IF skill.has_tm /\ skill.frequency # "absent"
                     THEN skill.frequency ELSE "occasional"
    IN  IF last_seen = NoDate THEN 0
        ELSE IF calculate_days_since(last_seen, now) > 30 THEN 0
        ELSE IF frequency = "frequent"
             THEN (IF session_count >= 3
                   THEN Max2(3, (session_count * 7) \div 10) ELSE session_count)
        ELSE IF frequency = "occasional"
             THEN (IF session_count >= 3
                   THEN Max2(2, (session_count * 5) \div 10) ELSE session_count)
        ELSE IF frequency = "rare"
             THEN (IF session_count >= 2
                   THEN Max2(1, (session_count * 3) \div 10) ELSE session_count)
        ELSE session_count

has_validated_outcome_evidence(skill) ==
    \/ skill.outcome_validation_status = "validated"
    \/ skill.outcome_evidence \in NonEmptyOutcome

should_promote(skill, now) ==
    IF skill.status = "active"
    THEN [flag |-> TRUE, reason |-> "Manual override"]
    ELSE IF SessionCount(skill) >= 5
    THEN [flag |-> TRUE, reason |-> "Session threshold met"]
    ELSE IF count_recent_sessions(skill, now) >= 3
    THEN [flag |-> TRUE, reason |-> "Recent activity"]
    ELSE IF skill.level >= 2 /\ has_validated_outcome_evidence(skill)
    THEN [flag |-> TRUE, reason |-> "validated outcome evidence"]
    ELSE [flag |-> FALSE, reason |-> ""]

should_demote_after_90(skill, now) ==
    IF skill.status = "dormant"
    THEN [flag |-> TRUE, reason |-> "Manual override"]
    ELSE IF /\ LastSeen(skill) # NoDate
            /\ calculate_days_since(LastSeen(skill), now) > 90
    THEN [flag |-> TRUE, reason |-> "90+ days inactive"]
    ELSE IF skill.level <= 1
    THEN [flag |-> TRUE, reason |-> "Low level after decay"]
    ELSE IF SessionCount(skill) <= 2 /\ skill.level >= 2
    THEN [flag |-> TRUE, reason |-> "Weak evidence"]
    ELSE [flag |-> FALSE, reason |-> ""]

should_demote(skill, now) ==
    IF skill.status = "dormant"
    THEN [flag |-> TRUE, reason |-> "Manual override"]
    ELSE IF /\ LastSeen(skill) # NoDate
            /\ calculate_days_since(LastSeen(skill), now) >= 90
    THEN [flag |-> TRUE, reason |-> "90+ days inactive"]
    ELSE IF skill.level <= 1
    THEN [flag |-> TRUE, reason |-> "Low level after decay"]
    ELSE IF SessionCount(skill) <= 2 /\ skill.level >= 2
    THEN [flag |-> TRUE, reason |-> "Weak evidence"]
    ELSE [flag |-> FALSE, reason |-> ""]

promote_skill(skill, now) ==
    [skill EXCEPT
        !.status = "active",
        !.has_tm = TRUE,
        !.first_seen = IF skill.has_tm THEN skill.first_seen ELSE NoDate,
        !.last_seen = LastSeen(skill),
        !.session_count = SessionCount(skill),
        !.frequency = IF skill.has_tm THEN skill.frequency ELSE "absent",
        !.decay_applied = DecayApplied(skill),
        !.promoted_date = now,
        !.evidence = IF skill.evidence \in NonEmptyEvidence
                     THEN skill.evidence ELSE "empty",
        !.outcome_evidence = IF skill.outcome_evidence = "absent"
                             THEN "empty" ELSE skill.outcome_evidence]

demote_skill_reassessed(skill, now) ==
    [skill            |-> skill.skill,
     level            |-> skill.level,
     validation       |-> "agent-assessed",
     status           |-> "dormant",
     has_tm           |-> skill.has_tm,
     first_seen       |-> skill.first_seen,
     last_seen        |-> skill.last_seen,
     session_count    |-> skill.session_count,
     frequency        |-> skill.frequency,
     decay_applied    |-> skill.decay_applied,
     promoted_date    |-> skill.promoted_date,
     demoted_date     |-> IF skill.has_tm THEN now ELSE NoDate,
     outcome_validation_status |-> "absent",
     outcome_evidence |-> "absent",
     evidence         |-> "absent",
     review_flags     |-> <<>>]

demote_skill(skill, now) ==
    [skill            |-> skill.skill,
     level            |-> skill.level,
     validation       |-> IF skill.validation = "absent" THEN "agent-assessed"
                          ELSE skill.validation,
     status           |-> "dormant",
     has_tm           |-> skill.has_tm,
     first_seen       |-> skill.first_seen,
     last_seen        |-> skill.last_seen,
     session_count    |-> skill.session_count,
     frequency        |-> skill.frequency,
     decay_applied    |-> skill.decay_applied,
     promoted_date    |-> skill.promoted_date,
     demoted_date     |-> IF skill.has_tm THEN now ELSE NoDate,
     outcome_validation_status |-> "absent",
     outcome_evidence |-> "absent",
     evidence         |-> "absent",
     review_flags     |-> <<>>]

\* ------------------------------------------------ the YAML documents
\* cats     : the category keys present under skills -> tech_stack
\* root[f]  : the list under skills -> tech_stack -> f / skills -> f
\* depth[f] : 0 when the document has no top-level key for f, else the
\*            number of "items" keys between that key and its list
\* items[f] : the list at the end of that chain of "items" keys
NamesIn(seq) == {seq[i].skill : i \in 1..Len(seq)}
Without(seq, name) == SelectSeq(seq, LAMBDA r : r.skill # name)

extract_entries(list, f, k) ==
    [i \in 1..Len(list) |-> [data |-> list[i], fam |-> f, k |-> k]]

extract_all_skills(doc) ==
    extract_entries(doc.root[TechCat], TechCat, 0)
    \o extract_entries(doc.root[Orch], Orch, 0)
    \o (IF doc.depth[TechCat] > 0
        THEN extract_entries(doc.items[TechCat], TechCat, doc.depth[TechCat])
        ELSE <<>>)
    \o (IF doc.depth[Orch] > 0
        THEN extract_entries(doc.items[Orch], Orch, doc.depth[Orch])
        ELSE <<>>)

remove_skill_from_structure(doc, name) ==
    IF name \in NamesIn(doc.root[TechCat])
    THEN [doc EXCEPT !.root[TechCat] = Without(@, name)]
    ELSE IF name \in NamesIn(doc.root[Orch])
    THEN [doc EXCEPT !.root[Orch] = Without(@, name)]
    ELSE IF doc.depth[TechCat] > 0 /\ name \in NamesIn(doc.items[TechCat])
    THEN [doc EXCEPT !.items[TechCat] = Without(@, name)]
    ELSE IF doc.depth[Orch] > 0 /\ name \in NamesIn(doc.items[Orch])
    THEN [doc EXCEPT !.items[Orch] = Without(@, name)]
    ELSE doc

\* add_skill_to_structure walks the path from the top of the document, not
\* from "skills": k is the number of "items" segments of the path.
add_skill_to_structure(doc, skill_data, f, k) ==
    LET d == doc.depth[f]
    IN  IF d = 0
        THEN [ok |-> TRUE,
              doc |-> [doc EXCEPT !.depth[f] = k + 1,
                                  !.items[f] = <<skill_data>>]]
        ELSE IF k > d
        THEN [ok |-> FALSE, doc |-> doc]          \* TypeError on a list
        ELSE IF k = d \/ k + 1 = d
        THEN [ok |-> TRUE,
              doc |-> [doc EXCEPT !.items[f] = Append(@, skill_data)]]
        ELSE [ok |-> TRUE,                         \* current['items'] = [..]
              doc |-> [doc EXCEPT !.depth[f] = k + 1,
                                  !.items[f] = <<skill_data>>]]

\* ------------------------------------------- analyze_skill_temporal.py
\* ethos.skill_decay.thresholds of ledger/operator/philosophy.yaml
Thresholds ==
    << [days |-> 30, action |-> "flag_for_review",
        severity |-> "low", message |-> "30 days inactive"],
       [days |-> 60, action |-> "downgrade_one_level",
        severity |-> "medium", message |-> "60 days inactive"],
       [days |-> 90, action |-> "downgrade_one_level",
        severity |-> "high", message |-> "90 days inactive"] >>

RECURSIVE decay_scan(_, _, _, _)
decay_scan(acc, thresholds, i, recency_days) ==
    IF i > Len(thresholds) THEN acc
    ELSE LET t == thresholds[i]
             acc1 ==
               IF recency_days >= t.days
               THEN IF t.action = "downgrade_one_level"
                    THEN [acc EXCEPT !.levels_to_downgrade = @ + 1,
                                     !.severity = t.severity,
                                     !.message = t.message]
                    ELSE IF t.action = "flag_for_review"
                    THEN IF acc.message = ""
                         THEN [acc EXCEPT !.should_flag = TRUE,
                                          !.severity = t.severity,
                                          !.message = t.message]
                         ELSE [acc EXCEPT !.should_flag = TRUE]
                    ELSE acc
               ELSE acc
         IN  decay_scan(acc1, thresholds, i + 1, recency_days)

NoDecay(current_level) ==
    [new_level |-> current_level, decay_applied |-> FALSE,
     severity |-> "none", message |-> "none", should_flag |-> FALSE]

calculate_decay(current_level, recency_days, thresholds) ==
    IF recency_days < 30 THEN NoDecay(current_level)
    ELSE LET acc == decay_scan([levels_to_downgrade |-> 0, severity |-> "low",
                                message |-> "", should_flag |-> FALSE],
                               thresholds, 1, recency_days)
         IN  IF acc.levels_to_downgrade = 0 /\ ~acc.should_flag
             THEN NoDecay(current_level)
             ELSE [new_level |-> Max2(0, current_level - acc.levels_to_downgrade),
                   decay_applied |-> TRUE,
                   severity |-> acc.severity,
                   message |-> acc.message,
                   should_flag |-> acc.should_flag]

\* "crash" is the TypeError of comparing None with a date
check_restoration(skill_entry) ==
    LET decay_applied == DecayApplied(skill_entry)
        last_seen == LastSeen(skill_entry)
    IN  IF decay_applied = NoDate THEN "no"
        ELSE IF decay_applied = BadDate \/ last_seen = BadDate THEN "no"
        ELSE IF last_seen = NoDate THEN "crash"
        ELSE IF last_seen > decay_applied THEN "restore"
        ELSE "no"

\* the entries process_skills_file and the apply_* functions walk
all_skill_entries(doc) == doc.root[TechCat] \o doc.root[Orch]

recency_of(skill_entry, now) ==
    LET last_seen_str == LastSeen(skill_entry)
    IN  IF IsDate(last_seen_str) THEN now - last_seen_str ELSE 9999

decay_entry(skill_entry, now, thresholds) ==
    LET r == calculate_decay(skill_entry.level, recency_of(skill_entry, now),
                             thresholds)
    IN  [skill |-> skill_entry.skill,
         old_level |-> skill_entry.level,
         new_level |-> r.new_level,
         severity |-> r.severity,
         message |-> r.message,
         flag_only |-> r.should_flag /\ r.new_level = skill_entry.level]

process_skills_file_no_skip(doc, now, thresholds) ==
    LET entries == all_skill_entries(doc)
        restoration_report ==
            SelectSeq(entries, LAMBDA e : check_restoration(e) = "restore")
        decaying ==
            SelectSeq(entries, LAMBDA e :
                /\ recency_of(e, now) # 0
                /\ recency_of(e, now) < 9999
                /\ calculate_decay(e.level, recency_of(e, now),
                                   thresholds).decay_applied)
    IN  [crash |-> \E i \in 1..Len(entries) :
                       check_restoration(entries[i]) = "crash",
         restoration |-> [i \in 1..Len(restoration_report) |->
                            [skill |-> restoration_report[i].skill,
                             old_level |-> restoration_report[i].level,
                             new_level |-> 1]],
         decay |-> [i \in 1..Len(decaying) |->
                            decay_entry(decaying[i], now, thresholds)]]

process_skills_file(doc, now, thresholds) ==
    LET entries == all_skill_entries(doc)
        restoration_report ==
            SelectSeq(entries, LAMBDA e : check_restoration(e) = "restore")
        restored == NamesIn(restoration_report)
        decaying ==
            SelectSeq(entries, LAMBDA e :
                /\ e.skill \notin restored
                /\ recency_of(e, now) # 0
                /\ recency_of(e, now) < 9999
                /\ calculate_decay(e.level, recency_of(e, now),
                                   thresholds).decay_applied)
    IN  [crash |-> \E i \in 1..Len(entries) :
                       check_restoration(entries[i]) = "crash",
         restoration |-> [i \in 1..Len(restoration_report) |->
                            [skill |-> restoration_report[i].skill,
                             old_level |-> restoration_report[i].level,
                             new_level |-> 1]],
         decay |-> [i \in 1..Len(decaying) |->
                            decay_entry(decaying[i], now, thresholds)]]

\* index of the first entry of a list with the given name, 0 if none
RECURSIVE first_index(_, _, _)
first_index(list, name, i) ==
    IF i > Len(list) THEN 0
    ELSE IF list[i].skill = name THEN i
    ELSE first_index(list, name, i + 1)

\* the search of apply_restoration_to_skills / apply_decay_to_skills:
\* tech_stack first, orchestration only when not found there
update_first(doc, name, change(_)) ==
    LET it == first_index(doc.root[TechCat], name, 1)
        io == first_index(doc.root[Orch], name, 1)
    IN  IF it > 0
        THEN [doc EXCEPT !.root[TechCat][it] = change(@)]
        ELSE IF io > 0
        THEN [doc EXCEPT !.root[Orch][io] = change(@)]
        ELSE doc

restore_entry_raised(skill_entry, restore_entry_) ==
    [skill_entry EXCEPT
        !.level = restore_entry_.new_level + 1,
        !.decay_applied = NoDate,
        !.review_flags =
            Append(SelectSeq(@, LAMBDA f : f.trigger # "skill_decay"),
                   [trigger |-> "skill_restored", severity |-> "low",
                    message |-> "restored conservatively to Level 1",
                    added |-> NoDate])]

restore_entry(skill_entry, restore_entry_) ==
    [skill_entry EXCEPT
        !.level = restore_entry_.new_level,
        !.decay_applied = NoDate,
        !.review_flags =
            Append(SelectSeq(@, LAMBDA f : f.trigger # "skill_decay"),
                   [trigger |-> "skill_restored", severity |-> "low",
                    message |-> "restored conservatively to Level 1",
                    added |-> NoDate])]

RECURSIVE apply_restoration_to_skills(_, _, _)
apply_restoration_to_skills(doc, restoration_report, i) ==
    IF i > Len(restoration_report) THEN doc
    ELSE apply_restoration_to_skills(
            update_first(doc, restoration_report[i].skill,
                         LAMBDA s : restore_entry(s, restoration_report[i])),
            restoration_report, i + 1)

decay_skill_entry_unflagged(skill_entry, decay_entry_, now) ==
    LET flag == [trigger |-> IF decay_entry_.flag_only
                             THEN "skill_decay_flag" ELSE "skill_decay",
                 severity |-> decay_entry_.severity,
                 message |-> decay_entry_.message,
                 added |-> NoDate]
    IN  IF decay_entry_.flag_only
        THEN skill_entry
        ELSE [skill_entry EXCEPT
                !.level = decay_entry_.new_level,
                !.has_tm = TRUE,
                !.last_seen = LastSeen(skill_entry),
                !.session_count = SessionCount(skill_entry),
                !.decay_applied = now,
                !.review_flags = Append(@, flag)]

decay_skill_entry(skill_entry, decay_entry_, now) ==
    LET flag == [trigger |-> IF decay_entry_.flag_only
                             THEN "skill_decay_flag" ELSE "skill_decay",
                 severity |-> decay_entry_.severity,
                 message |-> decay_entry_.message,
                 added |-> NoDate]
    IN  IF decay_entry_.flag_only
        THEN [skill_entry EXCEPT !.review_flags = Append(@, flag)]
        ELSE [skill_entry EXCEPT
                !.level = decay_entry_.new_level,
                !.has_tm = TRUE,
                !.last_seen = LastSeen(skill_entry),
                !.session_count = SessionCount(skill_entry),
                !.decay_applied = now,
                !.review_flags = Append(@, flag)]

RECURSIVE apply_decay_to_skills(_, _, _, _)
apply_decay_to_skills(doc, decay_report, i, now) ==
    IF i > Len(decay_report) THEN doc
    ELSE apply_decay_to_skills(
            update_first(doc, decay_report[i].skill,
                         LAMBDA s : decay_skill_entry(s, decay_report[i], now)),
            decay_report, i + 1, now)

\* process_skills_file and the two apply_* calls of main() for one file
decay_file(doc, now, thresholds) ==
    LET r == process_skills_file(doc, now, thresholds)
        d1 == apply_restoration_to_skills(doc, r.restoration, 1)
        d2 == apply_decay_to_skills(d1, r.decay, 1, now)
    IN  [crash |-> r.crash, doc |-> d2,
         restoration |-> r.restoration, decay |-> r.decay]

\* ------------------------------------------ apply_approved_updates.py
\* frequency as skill_ingestion.py writes it into a suggested update
ingestion_frequency(session_count) ==
    IF session_count = 1 THEN "single-session"
    ELSE IF session_count <= 3 THEN "occasional"
    ELSE "regular"

\* index of the skill in the lists find_skill_in_ledger searches
find_skill_in_ledger(doc, skill_name) ==
    LET it == first_index(doc.root[TechCat], skill_name, 1)
        io == first_index(doc.root[Orch], skill_name, 1)
    IN  IF it > 0 THEN [category |-> TechCat, idx |-> it]
        ELSE IF io > 0 THEN [category |-> Orch, idx |-> io]
        ELSE [category |-> "None", idx |-> 0]

updated_skill(skill, update) ==
    [skill EXCEPT
        !.has_tm = TRUE,
        !.first_seen = update.first_seen,
        !.last_seen = update.last_seen,
        !.session_count = update.session_count,
        !.frequency = update.frequency,
        !.decay_applied = DecayApplied(skill),
        !.evidence = IF @ \in NonEmptyEvidence THEN @ ELSE "text"]

apply_update(doc, update) ==
    LET w == find_skill_in_ledger(doc, update.skill_name)
    IN  IF w.idx = 0 THEN [applied |-> FALSE, doc |-> doc]
        ELSE [applied |-> TRUE,
              doc |-> [doc EXCEPT !.root[w.category][w.idx] =
                                      updated_skill(@, update)]]

\* -------------------------------------- level gates (test_temporal_gates.py)
HasTemporal(skill) == skill.has_tm
Frequency(skill) ==
    IF skill.has_tm /\ skill.frequency # "absent" THEN skill.frequency
    ELSE "unknown"

Rank(v) == IF v = "FAIL" THEN 3 ELSE IF v = "WARN" THEN 2
           ELSE IF v = "PASS" THEN 1 ELSE 0
Worse(a, b) == IF Rank(a) >= Rank(b) THEN a ELSE b

test_single_session_level_2_block(skill) ==
    IF skill.level < 2 THEN "skip"
    ELSE IF ~HasTemporal(skill) THEN "WARN"
    ELSE IF SessionCount(skill) = 1 \/ Frequency(skill) = "single-session"
    THEN "FAIL"
    ELSE "PASS"

test_level_2_session_requirement_lenient(skill) ==
    IF skill.level # 2 THEN "skip"
    ELSE IF ~HasTemporal(skill) THEN "WARN"
    ELSE IF SessionCount(skill) < 4 THEN "FAIL"
    ELSE IF Frequency(skill) \notin {"regular", "frequent"} THEN "FAIL"
    ELSE "PASS"

test_level_2_session_requirement(skill) ==
    IF skill.level # 2 THEN "skip"
    ELSE IF ~HasTemporal(skill) THEN "WARN"
    ELSE IF SessionCount(skill) < 5 THEN "FAIL"
    ELSE IF Frequency(skill) \notin {"regular", "frequent"} THEN "FAIL"
    ELSE "PASS"

test_level_3_session_requirement(skill) ==
    IF skill.level # 3 THEN "skip"
    ELSE IF ~HasTemporal(skill) THEN "WARN"
    ELSE IF SessionCount(skill) < 15 \/ Frequency(skill) # "frequent"
    THEN "FAIL"
    ELSE IF skill.evidence # "metrics" THEN "WARN"
    ELSE "PASS"

HasValidatedOutcome(skill) ==
    /\ skill.outcome_evidence \in NonEmptyOutcome
    /\ skill.outcome_validation_status = "validated"

test_level_2_outcome_requirement(skill) ==
    IF skill.level # 2 THEN "skip"
    ELSE IF ~HasValidatedOutcome(skill) THEN "WARN"
    ELSE "PASS"

test_level_3_external_validation_warn(skill) ==
    IF skill.level # 3 THEN "skip"
    ELSE IF ~HasValidatedOutcome(skill) THEN "WARN"
    ELSE IF skill.outcome_evidence # "production_deployed" THEN "WARN"
    ELSE "PASS"

test_level_3_external_validation(skill) ==
    IF skill.level # 3 THEN "skip"
    ELSE IF ~HasValidatedOutcome(skill) THEN "FAIL"
    ELSE IF skill.outcome_evidence # "production_deployed" THEN "FAIL"
    ELSE "PASS"

LevelGate_outcome_only(skill) ==
    Worse("PASS",
    Worse(test_level_2_outcome_requirement(skill),
          test_level_3_external_validation(skill)))

\* the verdict of the level gates on one skill: the worst of their results
LevelGate(skill) ==
    Worse("PASS",
    Worse(test_single_session_level_2_block(skill),
    Worse(test_level_2_session_requirement(skill),
    Worse(test_level_3_session_requirement(skill),
    Worse(test_level_2_outcome_requirement(skill),
          test_level_3_external_validation(skill))))))

\* _load_skills / _get_all_skills: the "skills" keys of the two files are
\* merged; a tech_stack category of the history file replaces the active one
get_all_skills(a, h) ==
    (IF TechCat \in h.cats THEN h.root[TechCat] ELSE a.root[TechCat])
    \o a.root[Orch] \o h.root[Orch]

\* ---------------------------------------- process_skill_status_changes
RECURSIVE apply_demotions(_, _, _, _)
apply_demotions(st, demotions, i, now) ==
    IF i > Len(demotions) \/ ~st.ok THEN st
    ELSE LET e == demotions[i]
             a1 == remove_skill_from_structure(st.a, e.data.skill)
             r == add_skill_to_structure(st.h, demote_skill(e.data, now),
                                         e.fam, e.k)
         IN  apply_demotions([ok |-> r.ok, a |-> a1, h |-> r.doc],
                             demotions, i + 1, now)

RECURSIVE apply_promotions(_, _, _, _)
apply_promotions(st, promotions, i, now) ==
    IF i > Len(promotions) \/ ~st.ok THEN st
    ELSE LET e == promotions[i]
             h1 == remove_skill_from_structure(st.h, e.data.skill)
             r == add_skill_to_structure(st.a, promote_skill(e.data, now),
                                         e.fam, e.k)
         IN  apply_promotions([ok |-> r.ok, a |-> r.doc, h |-> h1],
                              promotions, i + 1, now)

ReportEntries(entries, decide(_)) ==
    [i \in 1..Len(entries) |->
        [skill |-> entries[i].data.skill, reason |-> decide(entries[i].data).reason]]

process_skill_status_changes(a, h, now) ==
    LET promotions == SelectSeq(extract_all_skills(h),
                                LAMBDA e : should_promote(e.data, now).flag)
        demotions == SelectSeq(extract_all_skills(a),
                               LAMBDA e : should_demote(e.data, now).flag)
        st1 == apply_demotions([ok |-> TRUE, a |-> a, h |-> h],
                               demotions, 1, now)
        st2 == apply_promotions(st1, promotions, 1, now)
    IN  [ok |-> st2.ok, a |-> st2.a, h |-> st2.h,
         promotions |-> ReportEntries(promotions,
                                      LAMBDA s : should_promote(s, now)),
         demotions |-> ReportEntries(demotions,
                                     LAMBDA s : should_demote(s, now))]

NoReport == [promotions |-> <<>>, demotions |-> <<>>,
             restored |-> <<>>, decayed |-> <<>>]
NoVerdict == [n \in Names |-> "none"]
NoFin == [op |-> "none"]

\* one run of manage_skill_status.py; an exception leaves the files as
\* they were, because they are written only after every move succeeded
LifecyclePass ==
    LET r == process_skill_status_changes(active, historical, today)
    IN  /\ active' = IF r.ok THEN r.a ELSE active
        /\ historical' = IF r.ok THEN r.h ELSE historical
        /\ lastOp' = IF r.ok THEN "lifecycle" ELSE "lifecycle_crash"
        /\ report' = IF r.ok
                     THEN [NoReport EXCEPT !.promotions = r.promotions,
                                           !.demotions = r.demotions]
                     ELSE NoReport
        /\ verdict' = NoVerdict
        /\ UNCHANGED <<today, steps, updates, fin>>

FlagRoom(doc) ==
    \A i \in 1..Len(all_skill_entries(doc)) :
        Len(all_skill_entries(doc)[i].review_flags) < MaxFlags

\* one run of analyze_skill_temporal.py: both files are processed in
\* memory and saved at the end, so an exception leaves them as they were
DecayPass ==
    LET ra == decay_file(active, today, Thresholds)
        rh == decay_file(historical, today, Thresholds)
        crash == ra.crash \/ rh.crash
    IN  /\ FlagRoom(active) /\ FlagRoom(historical)
        /\ active' = IF crash THEN active ELSE ra.doc
        /\ historical' = IF crash THEN historical ELSE rh.doc
        /\ lastOp' = IF crash THEN "decay_crash" ELSE "decay"
        /\ report' = IF crash THEN NoReport
                     ELSE [NoReport EXCEPT
                             !.restored = ra.restoration \o rh.restoration,
                             !.decayed = ra.decay \o rh.decay]
        /\ verdict' = NoVerdict
        /\ UNCHANGED <<today, steps, updates, fin>>

\* one approved update of a skill ingestion report, applied by
\* apply_approved_updates.py: the active file first, else the history file;
\* an update whose skill is in neither is skipped and nothing is written
UpdateCounts == {4}

ApplyUpdate ==
    \E n \in Names, c \in UpdateCounts :
        LET update == [skill_name |-> n, first_seen |-> today - (c - 1),
                       last_seen |-> today,
                       session_count |-> c,
                       frequency |-> ingestion_frequency(c)]
            ra == apply_update(active, update)
            rh == apply_update(historical, update)
        IN  /\ updates < MaxUpdates
            /\ ra.applied \/ rh.applied
            /\ active' = ra.doc
            /\ historical' = IF ra.applied THEN historical ELSE rh.doc
            /\ lastOp' = "apply"
            /\ report' = NoReport
            /\ updates' = updates + 1
            /\ verdict' = NoVerdict
            /\ UNCHANGED <<today, steps, fin>>

\* one run of the level gates over the ledger; nothing is written
GatePass ==
    LET all == get_all_skills(active, historical)
    IN  /\ verdict' = [n \in Names |->
                         IF first_index(all, n, 1) > 0
                         THEN LevelGate(all[first_index(all, n, 1)])
                         ELSE "none"]
        /\ lastOp' = "gate"
        /\ report' = NoReport
        /\ UNCHANGED <<today, steps, updates, active, historical, fin>>

\* the clock: datetime.now() moves on between runs
AdvanceDay ==
    /\ steps < MaxSteps
    /\ today' = today + DayStep
    /\ steps' = steps + 1
    /\ lastOp' = "advance"
    /\ report' = NoReport
    /\ verdict' = NoVerdict
    /\ UNCHANGED <<updates, active, historical, fin>>

\* ------------------------------------------------------ initial ledger
calculate_frequency(session_count) ==
    IF session_count = 1 THEN "single-session"
    ELSE IF session_count <= 4 THEN "occasional"
    ELSE IF session_count <= 10 THEN "regular"
    ELSE "frequent"

Skill(name, level, status, sc, ls, validated) ==
    [skill            |-> name,
     level            |-> level,
     validation       |-> "agent-assessed",
     status           |-> status,
     has_tm           |-> TRUE,
     first_seen       |-> IF IsDate(ls) THEN Max2(0, ls - (sc - 1)) ELSE NoDate,
     last_seen        |-> ls,
     session_count    |-> sc,
     frequency        |-> calculate_frequency(sc),
     decay_applied    |-> NoDate,
     promoted_date    |-> NoDate,
     demoted_date     |-> NoDate,
     outcome_validation_status |-> IF validated THEN "validated" ELSE "absent",
     outcome_evidence |-> IF validated THEN "tests_passed" ELSE "absent",
     evidence         |-> "text",
     review_flags     |-> <<>>]

EmptyDoc ==
    [cats |-> {},
     root |-> [f \in FamSet |-> <<>>],
     depth |-> [f \in FamSet |-> 0],
     items |-> [f \in FamSet |-> <<>>]]

Place(doc, rec, f) ==
    [doc EXCEPT !.root[f] = Append(@, rec),
                !.cats = IF f = TechCat THEN {TechCat} ELSE @]

InitX ==
    {Skill("X", l, st, sc, StartDay - ago, v) :
        l \in {1, 2, 3}, st \in {"absent"}, sc \in {1, 2, 5},
        ago \in {0, 95}, v \in BOOLEAN}

InitY == {Skill("Y", 2, "absent", 5, StartDay - 60, FALSE)}

Init ==
    /\ today = StartDay
    /\ steps = 0
    /\ updates = 0
    /\ \E x \in InitX, y \in InitY, xa \in BOOLEAN, fy \in FamSet :
          LET a1 == IF xa THEN Place(EmptyDoc, x, TechCat) ELSE EmptyDoc
              h1 == IF xa THEN EmptyDoc ELSE Place(EmptyDoc, x, TechCat)
          IN  /\ active = Place(a1, y, fy)
              /\ historical = h1
    /\ lastOp = "init"
    /\ report = NoReport
    /\ verdict = NoVerdict
    /\ fin = NoFin

Next ==
    \/ AdvanceDay
    \/ DecayPass
    \/ LifecyclePass
    \/ ApplyUpdate
    \/ GatePass

Spec == Init /\ [][Next]_vars

\* ------------------------------------------------- the ledger as a whole
\* every record of the two files, wherever a move has put it
LedgerEntries(a, h) == extract_all_skills(a) \o extract_all_skills(h)
Found(a, h, n) == SelectSeq(LedgerEntries(a, h), LAMBDA e : e.data.skill = n)
Present(a, h, n) == Len(Found(a, h, n)) > 0
RecordOf(a, h, n) == Found(a, h, n)[1].data
CountFlags(skill, trigger) ==
    Len(SelectSeq(skill.review_flags, LAMBDA f : f.trigger = trigger))

\* occurrences of a name in a document
Occurrences(doc, name) ==
    Len(SelectSeq(extract_all_skills(doc), LAMBDA e : e.data.skill = name))

\* the two passes as functions of the ledger; a crashed run writes nothing
temporal_main(l, now) ==
    LET ra == decay_file(l.a, now, Thresholds)
        rh == decay_file(l.h, now, Thresholds)
    IN  IF ra.crash \/ rh.crash THEN l ELSE [a |-> ra.doc, h |-> rh.doc]

lifecycle_main(l, now) ==
    LET r == process_skill_status_changes(l.a, l.h, now)
    IN  IF r.ok THEN [a |-> r.a, h |-> r.h] ELSE l

RunBoth(l, now) == lifecycle_main(temporal_main(l, now), now)

\* ----------------------------------------------------------------- C1
\* C1: running the DecayEngine pass and the LifecycleManager pass twice in
\* succession on the same day leaves the ledger in the same state as
\* running them once.
C1_Idempotent ==
    LET once == RunBoth([a |-> active, h |-> historical], today)
    IN  RunBoth(once, today) = once

\* ----------------------------------------------------------------- C2
\* C2: every skill name stays in exactly one of the partitions Active and
\* Historical, whatever sequence of passes has run.
C2_OnePartition ==
    \A n \in Names : Occurrences(active, n) + Occurrences(historical, n) = 1

\* ----------------------------------------------------------------- C3
Examined(n) == first_index(get_all_skills(active, historical), n, 1) > 0
ExaminedRecord(n) ==
    LET all == get_all_skills(active, historical)
    IN  all[first_index(all, n, 1)]
HasSingleSession(skill) == skill.has_tm /\ skill.session_count = 1

\* C3 as stated: after the LevelGateValidator has run, every stored record
\* with session_count = 1 has a level of at most 1.
C3_SingleSessionStored ==
    lastOp = "gate" =>
        \A n \in Names :
            (Present(active, historical, n)
             /\ HasSingleSession(RecordOf(active, historical, n)))
            => RecordOf(active, historical, n).level <= 1

\* C3 amended: after the LevelGateValidator has run, every skill it examined
\* and did not report as FAIL satisfies session_count = 1 => level <= 1.
C3_SingleSessionReported ==
    lastOp = "gate" =>
        \A n \in Names :
            (Examined(n) /\ verdict[n] # "FAIL"
             /\ HasSingleSession(ExaminedRecord(n)))
            => ExaminedRecord(n).level <= 1

C3_Witness ==
    /\ lastOp = "gate"
    /\ \E n \in Names :
          /\ Examined(n) /\ verdict[n] # "FAIL"
          /\ HasSingleSession(ExaminedRecord(n))
          /\ ExaminedRecord(n).level <= 1

\* ----------------------------------------------------------------- C7
Restorable(skill) ==
    /\ IsDate(DecayApplied(skill))
    /\ IsDate(LastSeen(skill))
    /\ LastSeen(skill) > DecayApplied(skill)

\* C7: a DecayEngine pass restores a skill exactly when its decay_applied
\* is set and its last_seen is strictly later: the level becomes 1,
\* decay_applied and the skill_decay flags are removed and exactly one
\* skill_restored flag is appended; any other skill gets no restoration.
C7_Restoration ==
    [][lastOp' = "decay" =>
        \A n \in Names :
            Present(active, historical, n) =>
                LET s == RecordOf(active, historical, n)
                    t == RecordOf(active', historical', n)
                IN  /\ Present(active', historical', n)
                    /\ IF Restorable(s)
                       THEN /\ t.level = 1
                            /\ DecayApplied(t) = NoDate
                            /\ CountFlags(t, "skill_decay") = 0
                            /\ CountFlags(t, "skill_restored")
                                 = CountFlags(s, "skill_restored") + 1
                       ELSE CountFlags(t, "skill_restored")
                                 = CountFlags(s, "skill_restored")]_vars

\* ----------------------------------------------------------------- C8
\* C8: no step raises the level of a skill, except a restoration, which
\* sets it to exactly 1.
C8_LevelNeverRises ==
    [][\A n \in Names :
        LET old == Found(active, historical, n)
            new == Found(active', historical', n)
        IN  (/\ Len(old) > 0 /\ Len(new) > 0
             /\ new[1].data.level > old[1].data.level)
            => /\ lastOp' = "decay"
               /\ n \in NamesIn(report'.restored)
               /\ new[1].data.level = 1]_vars

C8_Witness ==
    /\ lastOp = "decay"
    /\ \E i \in 1..Len(report.restored) :
          /\ report.restored[i].old_level = 0
          /\ Present(active, historical, report.restored[i].skill)
          /\ RecordOf(active, historical, report.restored[i].skill).level = 1
    /\ \E i \in 1..Len(report.decayed) :
          report.decayed[i].new_level < report.decayed[i].old_level

\* ------------------------------------------- the level gates on one skill
GateLevels == 0..3
GateCounts == {1, 4, 5, 14, 15}
GateFrequencies == {"absent", "single-session", "occasional", "regular",
                    "frequent"}
GateOutcomes == {<<"absent", "absent">>, <<"pending", "tests_passed">>,
                 <<"validated", "tests_passed">>,
                 <<"validated", "production_deployed">>}

GateSkills ==
    {[Skill("X", l, "absent", sc, StartDay, FALSE) EXCEPT
        !.has_tm = tm, !.frequency = fr,
        !.outcome_validation_status = oc[1], !.outcome_evidence = oc[2],
        !.evidence = ev] :
        l \in GateLevels, tm \in BOOLEAN, sc \in GateCounts,
        fr \in GateFrequencies, oc \in GateOutcomes,
        ev \in NonEmptyEvidence}

Idle ==
    /\ today = StartDay /\ steps = 0 /\ updates = 0
    /\ active = EmptyDoc /\ historical = EmptyDoc
    /\ lastOp = "init" /\ report = NoReport /\ verdict = NoVerdict

InitGate ==
    /\ Idle
    /\ \E skill \in GateSkills : fin = [op |-> "gate_in", skill |-> skill]

\* the gates run over a ledger that holds the one skill
GateCheck ==
    /\ fin.op = "gate_in"
    /\ fin' = [op |-> "gate_out", skill |-> fin.skill,
               verdict |-> LevelGate(
                   get_all_skills(Place(EmptyDoc, fin.skill, TechCat),
                                  EmptyDoc)[1])]
    /\ UNCHANGED <<today, steps, updates, active, historical, lastOp,
                   report, verdict>>

SpecGate == InitGate /\ [][GateCheck]_vars

\* ----------------------------------------------------------------- C4
Level2SessionsMissing(skill) ==
    \/ SessionCount(skill) < 5
    \/ Frequency(skill) \notin {"regular", "frequent"}

Level2Verdict(skill) ==
    IF Level2SessionsMissing(skill) THEN "FAIL"
    ELSE IF ~HasValidatedOutcome(skill) THEN "WARN"
    ELSE "PASS"

HasExternalOutcome(skill) ==
    HasValidatedOutcome(skill) /\ skill.outcome_evidence = "production_deployed"

Level3Missing(skill) ==
    \/ SessionCount(skill) < 15
    \/ Frequency(skill) # "frequent"
    \/ ~HasExternalOutcome(skill)

\* C5 as stated: a level 3 skill gets FAIL whenever session_count < 15, or
\* its frequency is not frequent, or it has no validated outcome evidence
\* of an external type; lacking only quantitative evidence gives WARN.
C5_Level3Gate ==
    (fin.op = "gate_out" /\ fin.skill.level = 3)
    => /\ Level3Missing(fin.skill) => fin.verdict = "FAIL"
       /\ (~Level3Missing(fin.skill) /\ fin.skill.evidence # "metrics")
            => fin.verdict = "WARN"

\* C5 amended: a level 3 skill gets FAIL whenever it has no validated
\* outcome evidence of an external type, or it has temporal metadata with
\* session_count < 15 or a frequency other than frequent; lacking only
\* quantitative evidence gives WARN, as does lacking only temporal metadata.
C5_Level3GateWithMetadata ==
    (fin.op = "gate_out" /\ fin.skill.level = 3)
    => /\ ~HasExternalOutcome(fin.skill) => fin.verdict = "FAIL"
       /\ (HasTemporal(fin.skill) /\ Level3Missing(fin.skill))
            => fin.verdict = "FAIL"
       /\ (~Level3Missing(fin.skill) /\ fin.skill.evidence # "metrics")
            => fin.verdict = "WARN"
       /\ (~HasTemporal(fin.skill) /\ HasExternalOutcome(fin.skill))
            => fin.verdict = "WARN"

C5_Witness ==
    /\ fin.op = "gate_out" /\ fin.skill.level = 3
    /\ HasTemporal(fin.skill) /\ ~Level3Missing(fin.skill)
    /\ fin.skill.evidence # "metrics"
    /\ fin.verdict = "WARN"

\* ------------------------------------- one decay pass under several tables
TableEarly ==
    <<[days |-> 20, action |-> "downgrade_one_level", severity |-> "medium",
       message |-> "20 days inactive"]>>
TableDense ==
    <<[days |-> 30, action |-> "downgrade_one_level", severity |-> "low",
       message |-> "30 days inactive"],
      [days |-> 45, action |-> "flag_for_review", severity |-> "low",
       message |-> "45 days inactive"],
      [days |-> 60, action |-> "downgrade_one_level", severity |-> "medium",
       message |-> "60 days inactive"],
      [days |-> 90, action |-> "downgrade_one_level", severity |-> "high",
       message |-> "90 days inactive"]>>
Tables == {Thresholds, TableEarly, TableDense}
DecayLevels == 0..3
DecayAges == {1, 10, 25, 29, 30, 45, 59, 60, 89, 90, 95}

InitDecay ==
    /\ Idle
    /\ \E l \in DecayLevels, r \in DecayAges, t \in Tables :
          fin = [op |-> "decay_in", thresholds |-> t, inactive |-> r,
                 skill |-> Skill("X", l, "absent", 5, StartDay - r, FALSE)]

\* one run of the decay engine over a file that holds the one skill
DecayCheck ==
    /\ fin.op = "decay_in"
    /\ LET r == decay_file(Place(EmptyDoc, fin.skill, TechCat), today,
                           fin.thresholds)
       IN  fin' = [op |-> "decay_out", thresholds |-> fin.thresholds,
                   inactive |-> fin.inactive, skill |-> fin.skill,
                   crash |-> r.crash,
                   restored |-> Len(r.restoration) > 0,
                   after |-> r.doc.root[TechCat][1]]
    /\ UNCHANGED <<today, steps, updates, active, historical, lastOp,
                   report, verdict>>

SpecDecay == InitDecay /\ [][DecayCheck]_vars

\* ----------------------------------------------------------------- C6
Downgrades(thresholds, inactive) ==
    Cardinality({i \in 1..Len(thresholds) :
        /\ thresholds[i].action = "downgrade_one_level"
        /\ thresholds[i].days <= inactive})

\* C6: in one DecayEngine pass, under any threshold table, a skill that is
\* not restored and has been inactive R days ends at max(0, level - k),
\* k being the number of downgrade thresholds with days <= R.
C6_DecayLevel ==
    (fin.op = "decay_out" /\ ~fin.restored)
    => fin.after.level =
         Max2(0, fin.skill.level - Downgrades(fin.thresholds, fin.inactive))

\* ------------------------------ one lifecycle pass over one recorded skill
\* the sessions of a skill, as days before today; the ledger records their
\* number as session_count and the latest of them as last_seen
SessionAges == {0, 10, 20, 89, 90, 95, 99}
RuleLevels == 0..3
RuleStatuses == {"absent", "active", "dormant"}
RuleOutcomes == {<<"absent", "absent">>, <<"pending", "tests_passed">>,
                 <<"validated", "tests_passed">>}

Youngest(ages) == CHOOSE a \in ages : \A b \in ages : a <= b

Recorded(ages, l, st, oc, fr) ==
    [Skill("X", l, st, Cardinality(ages),
           IF ages = {} THEN NoDate ELSE StartDay - Youngest(ages), FALSE)
     EXCEPT !.has_tm = ages # {},
            !.frequency = fr,
            !.outcome_validation_status = oc[1],
            !.outcome_evidence = oc[2]]

InitRules ==
    /\ Idle
    /\ \E ages \in SUBSET SessionAges, l \in RuleLevels,
          st \in RuleStatuses, oc \in RuleOutcomes,
          byIngestion \in BOOLEAN, part \in {"active", "historical"} :
          fin = [op |-> "rules_in", part |-> part, ages |-> ages,
                 skill |-> Recorded(ages, l, st, oc,
                     IF byIngestion
                     THEN ingestion_frequency(Cardinality(ages))
                     ELSE calculate_frequency(Cardinality(ages)))]

\* one run of manage_skill_status.py over a ledger that holds the skill
\* in the given partition
RulesCheck ==
    /\ fin.op = "rules_in"
    /\ LET a == IF fin.part = "active"
                THEN Place(EmptyDoc, fin.skill, TechCat) ELSE EmptyDoc
           h == IF fin.part = "historical"
                THEN Place(EmptyDoc, fin.skill, TechCat) ELSE EmptyDoc
           r == process_skill_status_changes(a, h, today)
       IN  fin' = [op |-> "rules_out", part |-> fin.part, ages |-> fin.ages,
                   skill |-> fin.skill,
                   in_active |-> Occurrences(r.a, fin.skill.skill) > 0,
                   in_historical |-> Occurrences(r.h, fin.skill.skill) > 0,
                   promote |-> should_promote(fin.skill, today),
                   demote |-> should_demote(fin.skill, today),
                   after |-> RecordOf(r.a, r.h, fin.skill.skill),
                   report |-> [promotions |-> r.promotions,
                               demotions |-> r.demotions]]
    /\ UNCHANGED <<today, steps, updates, active, historical, lastOp,
                   report, verdict>>

SpecRules == InitRules /\ [][RulesCheck]_vars

\* ----------------------------------------------------------------- C9
SessionsWithin(ages, days) == Cardinality({a \in ages : a <= days})

PromotionRule(skill, ages) ==
    \/ skill.status = "active"
    \/ SessionCount(skill) >= 5
    \/ SessionsWithin(ages, 30) >= 3
    \/ skill.level >= 2 /\ has_validated_outcome_evidence(skill)

\* C9: a Historical skill is promoted in a pass if and only if its status
\* is active, or session_count >= 5, or at least 3 of its sessions lie
\* within the last 30 days, or level >= 2 with validated outcome evidence;
\* when none holds should_promote returns false with an empty reason.
C9_Promotion ==
    (fin.op = "rules_out" /\ fin.part = "historical")
    => /\ fin.in_active <=> PromotionRule(fin.skill, fin.ages)
       /\ ~PromotionRule(fin.skill, fin.ages)
            => fin.promote = [flag |-> FALSE, reason |-> ""]

\* ---------------------------------------------------------------- C10
DemotionRule(skill) ==
    \/ skill.status = "dormant"
    \/ IsDate(LastSeen(skill)) /\ today - LastSeen(skill) >= 90
    \/ skill.level <= 1
    \/ SessionCount(skill) <= 2 /\ skill.level >= 2

\* C10: an Active skill is demoted in a pass if and only if its status is
\* dormant, or its last_seen is 90 or more days ago, or level <= 1, or
\* session_count <= 2 with level >= 2; when none holds should_demote
\* returns false with an empty reason.
C10_Demotion ==
    (fin.op = "rules_out" /\ fin.part = "active")
    => /\ fin.in_historical <=> DemotionRule(fin.skill)
       /\ fin.in_active <=> ~DemotionRule(fin.skill)
       /\ ~DemotionRule(fin.skill)
            => fin.demote = [flag |-> FALSE, reason |-> ""]

C10_Witness ==
    /\ fin.op = "rules_out" /\ fin.part = "active"
    /\ fin.skill.status = "absent" /\ fin.skill.level = 2
    /\ fin.skill.session_count = 3
    /\ today - fin.skill.last_seen = 90
    /\ fin.in_historical /\ ~fin.in_active
    /\ fin.demote.reason = "90+ days inactive"

\* ---------------------------------------------------------------- C11
\* C11: a skill that satisfies both a promotion rule and a demotion rule in
\* the same pass is not moved and its record is left unchanged; the report
\* lists it as ambiguous, not as a promotion or a demotion.
C11_AmbiguousSkipped ==
    (fin.op = "rules_out" /\ fin.promote.flag /\ fin.demote.flag)
    => /\ fin.in_active <=> fin.part = "active"
       /\ fin.in_historical <=> fin.part = "historical"
       /\ fin.after = fin.skill
       /\ fin.skill.skill \notin NamesIn(fin.report.promotions)
       /\ fin.skill.skill \notin NamesIn(fin.report.demotions)

\* ------------------------------- the frequency written for a session count
MaxCount == 16
FrequencyPaths == {"temporal_analysis", "ingestion_orchestration",
                   "ingestion_tech_stack", "approved_update"}

\* analyze_temporal_metadata of skill_ingestion.py, orchestration skills
orchestration_frequency(session_count) ==
    IF session_count = 1 THEN "single-session"
    ELSE IF session_count <= 3 THEN "occasional"
    ELSE "regular"

\* the frequency a path writes into the record of a skill seen on
\* session_count dates
written_frequency(path, session_count) ==
    IF path = "temporal_analysis" THEN calculate_frequency(session_count)
    ELSE IF path = "ingestion_orchestration"
    THEN orchestration_frequency(session_count)
    ELSE IF path = "ingestion_tech_stack"
    THEN ingestion_frequency(session_count)
    ELSE LET update == [skill_name |-> "X", first_seen |-> today,
                        last_seen |-> today,
                        session_count |-> session_count,
                        frequency |-> ingestion_frequency(session_count)]
             doc == Place(EmptyDoc,
                          Skill("X", 1, "absent", 1, today, FALSE), TechCat)
         IN  apply_update(doc, update).doc.root[TechCat][1].frequency

InitFreq ==
    /\ Idle
    /\ \E c \in 1..MaxCount, path \in FrequencyPaths :
          fin = [op |-> "freq_in", path |-> path, session_count |-> c]

FreqCheck ==
    /\ fin.op = "freq_in"
    /\ fin' = [op |-> "freq_out", path |-> fin.path,
               session_count |-> fin.session_count,
               frequency |-> written_frequency(fin.path, fin.session_count)]
    /\ UNCHANGED <<today, steps, updates, active, historical, lastOp,
                   report, verdict>>

SpecFreq == InitFreq /\ [][FreqCheck]_vars

\* ---------------------------------------------------------------- C12
FrequencyOf(session_count) ==
    IF session_count = 1 THEN "single-session"
    ELSE IF session_count <= 4 THEN "occasional"
    ELSE IF session_count <= 10 THEN "regular"
    ELSE "frequent"

\* C12: wherever a frequency is computed or written it is the same function
\* of session_count: 1 single-session, 2..4 occasional, 5..10 regular, more
\* than 10 frequent.
C12_FrequencyFunction ==
    fin.op = "freq_out" => fin.frequency = FrequencyOf(fin.session_count)

\* ------------------------------------------------- confidence scores
\* analyze_skill_temporal.calculate_confidence_score, before the final clamp.
confidence_sum(session_count, recency_days, has_quantitative, evidence_source_count, trend) ==
    LET base_score == 50
        session_boost == Min2(session_count * 2, 20)
        recency_boost == IF recency_days < 30 THEN 10
                         ELSE IF recency_days < 90 THEN 5 ELSE 0
        quant_boost == IF has_quantitative THEN 15 ELSE 0
        diversity_boost == IF evidence_source_count >= 3 THEN 10
                           ELSE IF evidence_source_count >= 2 THEN 5 ELSE 0
        single_session_penalty == IF session_count = 1 THEN 15 ELSE 0
        stale_penalty == IF trend = "stale" THEN 10 ELSE 0
    IN  base_score + session_boost + recency_boost + quant_boost
        + diversity_boost - (single_session_penalty + stale_penalty)

calculate_confidence_score_unclamped(session_count, recency_days, has_quantitative, evidence_source_count, trend) ==
    confidence_sum(session_count, recency_days, has_quantitative,
                   evidence_source_count, trend)

calculate_confidence_score(session_count, recency_days, has_quantitative, evidence_source_count, trend) ==
    Max2(0, Min2(100, confidence_sum(session_count, recency_days,
                     has_quantitative, evidence_source_count, trend)))

\* skill_ingestion.calculate_confidence.  The learning penalty and the
\* tactical score are multiples of 0.5, so every quantity here is kept in
\* half points: the operator yields twice the score the code returns.
\* skill_data is [has_leverage, strategic, directive, evaluative, iterative,
\* learning, count, passive, quality, evidence], the last three being the
\* number of non-active quality marks, of quality marks and of evidence items.
weighted_sum_keeps_base(skill_data, session_count) ==
    LET lev(n) == IF skill_data.has_leverage THEN n ELSE 0
        strategic_score == 2 * (lev(skill_data.strategic) * 3)
        directive_score == 2 * (lev(skill_data.directive) * 2)
        evaluative_score == 2 * (lev(skill_data.evaluative) * 2)
        iterative_score == 2 * (lev(skill_data.iterative) * 2)
        learning_penalty == lev(skill_data.learning)
        tactical_score == Min2(skill_data.count, 2 * 20)
        weighted_score == strategic_score + directive_score
                          + evaluative_score + iterative_score
                          + tactical_score - learning_penalty
        base_score == Min2(weighted_score, 2 * 40)
        quality_penalty == IF skill_data.quality > 0
                           THEN (skill_data.passive * 20) \div skill_data.quality
                           ELSE 0
        session_bonus == Min2(session_count * 5, 30)
        depth_score == Min2(skill_data.evidence * 3, 30)
    IN  base_score + 2 * (session_bonus + depth_score - quality_penalty)

weighted_sum(skill_data, session_count) ==
    LET lev(n) == IF skill_data.has_leverage THEN n ELSE 0
        strategic_score == 2 * (lev(skill_data.strategic) * 3)
        directive_score == 2 * (lev(skill_data.directive) * 2)
        evaluative_score == 2 * (lev(skill_data.evaluative) * 2)
        iterative_score == 2 * (lev(skill_data.iterative) * 2)
        learning_penalty == lev(skill_data.learning)
        tactical_score == Min2(skill_data.count, 2 * 20)
        weighted_score == strategic_score + directive_score
                          + evaluative_score + iterative_score
                          + tactical_score - learning_penalty
        total_leverage == strategic_score + directive_score
                          + evaluative_score + iterative_score
        base_score == IF total_leverage = 0 /\ skill_data.has_leverage
                      THEN 0 ELSE Min2(weighted_score, 2 * 40)
        quality_penalty == IF skill_data.quality > 0
                           THEN (skill_data.passive * 20) \div skill_data.quality
                           ELSE 0
        session_bonus == Min2(session_count * 5, 30)
        depth_score == Min2(skill_data.evidence * 3, 30)
    IN  base_score + 2 * (session_bonus + depth_score - quality_penalty)

calculate_confidence_unclamped(skill_data, session_count) ==
    weighted_sum(skill_data, session_count)

calculate_confidence(skill_data, session_count) ==
    Max2(0, Min2(2 * 100, weighted_sum(skill_data, session_count)))

ScoreSessions == {0, 1, 5, 10, 12}
ScoreRecency == {0, 29, 30, 89, 90}
ScoreSources == {0, 2, 3}
ScoreTrends == {"stable", "stale"}

LeverageData ==
    {[has_leverage |-> hl, strategic |-> s, directive |-> d,
      evaluative |-> 0, iterative |-> d, learning |-> l, count |-> c,
      passive |-> q[1], quality |-> q[2], evidence |-> e] :
        hl \in BOOLEAN, s \in {0, 5}, d \in {0, 1}, l \in {0, 7, 300},
        c \in {0, 3, 100}, q \in {<<0, 0>>, <<0, 2>>, <<1, 3>>, <<2, 2>>},
        e \in {0, 5, 12}}

WeightedSessions == {0, 1, 6}

InitConf ==
    /\ Idle
    /\ \/ \E sc \in ScoreSessions, rd \in ScoreRecency, hq \in BOOLEAN,
            es \in ScoreSources, tr \in ScoreTrends :
              fin = [op |-> "score_in", session_count |-> sc,
                     recency_days |-> rd, has_quantitative |-> hq,
                     evidence_source_count |-> es, trend |-> tr]
       \/ \E sd \in LeverageData, sc \in WeightedSessions :
              fin = [op |-> "weighted_in", skill_data |-> sd,
                     session_count |-> sc]

ScoreCheck ==
    /\ fin.op = "score_in"
    /\ fin' = [op |-> "score_out",
               sum |-> confidence_sum(fin.session_count, fin.recency_days,
                          fin.has_quantitative, fin.evidence_source_count,
                          fin.trend),
               twice |-> 2 * calculate_confidence_score(fin.session_count,
                          fin.recency_days, fin.has_quantitative,
                          fin.evidence_source_count, fin.trend)]
    /\ UNCHANGED <<today, steps, updates, active, historical, lastOp,
                   report, verdict>>

WeightedCheck ==
    /\ fin.op = "weighted_in"
    /\ fin' = [op |-> "weighted_out", skill_data |-> fin.skill_data,
               session_count |-> fin.session_count,
               sum |-> weighted_sum(fin.skill_data, fin.session_count),
               twice |-> calculate_confidence(fin.skill_data,
                                              fin.session_count)]
    /\ UNCHANGED <<today, steps, updates, active, historical, lastOp,
                   report, verdict>>

SpecConf == InitConf /\ [][ScoreCheck \/ WeightedCheck]_vars

\* ---------------------------------------------------------------- C13
\* C13: every confidence score produced by calculate_confidence_score and by
\* the weighted calculate_confidence lies in [0,100] (0..200 half points),
\* also for inputs whose unclamped sum is above 100 or below 0.
C13_ConfidenceRange ==
    fin.op \in {"score_out", "weighted_out"}
        => fin.twice >= 0 /\ fin.twice <= 2 * 100

\* A weighted score whose unclamped sum was negative.
C13_Witness ==
    /\ fin.op = "weighted_out"
    /\ fin.sum < 0
    /\ fin.twice = 0

\* ---------------------------------------------------------------- C14
MovedByPromotion ==
    fin.op = "rules_out" /\ fin.part = "historical" /\ fin.in_active

MovedByDemotion ==
    fin.op = "rules_out" /\ fin.part = "active" /\ fin.in_historical

\* C14: a record moved by promotion has status active, promoted_date equal
\* to today and existing evidence and outcome_evidence containers; a record
\* moved by demotion has status dormant and demoted_date equal to today.
C14_MoveStamps ==
    /\ MovedByPromotion
          => /\ fin.after.status = "active"
             /\ fin.after.promoted_date = today
             /\ fin.after.evidence # "absent"
             /\ fin.after.outcome_evidence # "absent"
    /\ MovedByDemotion
          => /\ fin.after.status = "dormant"
             /\ fin.after.demoted_date = today

\* ------------------------------------- promote_skill and demote_skill
MaxMoves == 2

MoveLevels == {0, 1, 2, 3}
MoveValidations == {"absent", "agent-assessed", "human-validated"}
MoveFirstSeen == {NoDate, 10}
MoveLastSeen == {NoDate, 50, 90}
MoveCounts == {1, 3, 7}
MoveEvidence == {"absent", "empty", "text"}

MoveSkills ==
    {[Skill("X", l, "absent", sc, ls, FALSE)
      EXCEPT !.validation = v, !.first_seen = fs, !.evidence = ev] :
        l \in MoveLevels, v \in MoveValidations, fs \in MoveFirstSeen,
        ls \in MoveLastSeen, sc \in MoveCounts, ev \in MoveEvidence}
    \cup
    {[Skill("X", l, "absent", 0, NoDate, FALSE)
      EXCEPT !.validation = v, !.has_tm = FALSE, !.frequency = "absent",
             !.evidence = ev] :
        l \in MoveLevels, v \in MoveValidations, ev \in MoveEvidence}

InitMoves ==
    /\ Idle
    /\ \E s \in MoveSkills :
          fin = [op |-> "moves", skill |-> s, cur |-> s, moves |-> <<>>]

Demote ==
    /\ fin.op = "moves"
    /\ Len(fin.moves) < MaxMoves
    /\ fin' = [fin EXCEPT !.cur = demote_skill(@, today),
                          !.moves = Append(@, "demote")]
    /\ UNCHANGED <<today, steps, updates, active, historical, lastOp,
                   report, verdict>>

Promote ==
    /\ fin.op = "moves"
    /\ Len(fin.moves) < MaxMoves
    /\ fin' = [fin EXCEPT !.cur = promote_skill(@, today),
                          !.moves = Append(@, "promote")]
    /\ UNCHANGED <<today, steps, updates, active, historical, lastOp,
                   report, verdict>>

SpecMoves == InitMoves /\ [][Demote \/ Promote]_vars

\* ---------------------------------------------------------------- C15
Preserved(old, new) ==
    /\ new.skill = old.skill
    /\ new.level = old.level
    /\ old.validation # "absent" => new.validation = old.validation
    /\ old.has_tm => /\ new.has_tm
                     /\ new.first_seen = old.first_seen
                     /\ new.last_seen = old.last_seen
                     /\ new.session_count = old.session_count
                     /\ new.frequency = old.frequency

\* C15: promotion and demotion never alter the values a skill already has
\* for name, level, validation type and the temporal_metadata fields
\* first_seen, last_seen, session_count and frequency; a skill demoted and
\* then promoted again has the same values for all of these.
C15_MovesPreserve ==
    fin.op = "moves" => Preserved(fin.skill, fin.cur)

\* A human-validated skill with temporal metadata, demoted (its evidence is
\* collapsed) and promoted again.
C15_Witness ==
    /\ fin.op = "moves"
    /\ fin.moves = <<"demote", "promote">>
    /\ fin.skill.validation = "human-validated"
    /\ fin.skill.has_tm /\ IsDate(fin.skill.first_seen)
    /\ fin.skill.evidence = "text"
    /\ fin.cur.status = "active"
    /\ fin.cur.evidence = "empty"
    /\ Preserved(fin.skill, fin.cur)

\* --------------------------------- packages/capture/deduplication.py
MaxMarks == 4

SessionIds == {"", "s1", "s2"}
Sources == {"claude-code-cache", "manual-transcript"}

is_session_processed(history, session_id) ==
    \E i \in 1..Len(history.processed_sessions) :
        history.processed_sessions[i].session_id = session_id

mark_session_processed_again(history, session_id, source, now) ==
    [history EXCEPT !.processed_sessions =
        Append(@, [session_id |-> session_id, source |-> source,
                   ingestion_date |-> now])]

mark_session_processed(history, session_id, source, now) ==
    IF is_session_processed(history, session_id) THEN history
    ELSE [history EXCEPT !.processed_sessions =
            Append(@, [session_id |-> session_id, source |-> source,
                       ingestion_date |-> now])]

\* load_ingestion_history of a missing or empty file
InitHistory ==
    /\ Idle
    /\ fin = [op |-> "history", history |-> [processed_sessions |-> <<>>],
              before |-> [processed_sessions |-> <<>>],
              session_id |-> "none", marked |-> {}, calls |-> 0]

MarkSessionProcessed ==
    \E id \in SessionIds, src \in Sources :
        /\ fin.op = "history"
        /\ fin.calls < MaxMarks
        /\ fin' = [op |-> "history",
                   history |-> mark_session_processed(fin.history, id, src,
                                                      today),
                   before |-> fin.history,
                   session_id |-> id,
                   marked |-> fin.marked \cup {id},
                   calls |-> fin.calls + 1]
        /\ UNCHANGED <<today, steps, updates, active, historical, lastOp,
                       report, verdict>>

SpecHistory == InitHistory /\ [][MarkSessionProcessed]_vars

\* ---------------------------------------------------------------- C16
EntriesFor(history, session_id) ==
    Cardinality({i \in 1..Len(history.processed_sessions) :
                    history.processed_sessions[i].session_id = session_id})

\* C16: after any sequence of mark_session_processed calls the history holds
\* at most one entry per session_id; marking an already processed session
\* leaves the history unchanged; is_session_processed(id) is true from the
\* first marking of id onwards.
C16_OneEntryPerSession ==
    fin.op = "history"
        => /\ \A id \in SessionIds : EntriesFor(fin.history, id) <= 1
           /\ (fin.calls > 0 /\ is_session_processed(fin.before, fin.session_id))
                 => fin.history = fin.before
           /\ \A id \in fin.marked : is_session_processed(fin.history, id)

\* The last call marked a session that was already in the history.
C16_Witness ==
    /\ fin.op = "history"
    /\ fin.calls >= 2
    /\ fin.session_id = "s1"
    /\ is_session_processed(fin.before, "s1")
    /\ Len(fin.history.processed_sessions) = 1
    /\ fin.history.processed_sessions[1].source = "claude-code-cache"
    /\ fin.marked = {"s1"}

\* ------------------------ apply_approved_updates.py: evidence entries
\* A skill record here is [session_count, evidence, evidence_sessions]:
\* evidence is [kind, items] with kind "absent" (no key), "str" (a string)
\* or "list"; a field "none" in an entry is a key the entry does not have.
MaxReports == 2

Samples ==
    {[source_file |-> "t1", interaction_id |-> "i1", content |-> "c1"],
     [source_file |-> "t1", interaction_id |-> "i1", content |-> "c2"],
     [source_file |-> "", interaction_id |-> "", content |-> "c1"]}

EvidenceSessions ==
    {[session_file |-> "t1", interaction_id |-> "i1"],
     [session_file |-> "t2", interaction_id |-> "i1"]}

SeqsUpTo2(S) == {<<>>} \cup {<<a>> : a \in S} \cup {<<a, b>> : a, b \in S}

EvidenceUpdates ==
    {[approved |-> ap, session_count |-> sc, evidence_samples |-> es,
      evidence_sessions |-> ss] :
        ap \in BOOLEAN, sc \in {2, 6}, es \in SeqsUpTo2(Samples),
        ss \in {<<>>} \cup {<<a>> : a \in EvidenceSessions}}

evidence_entry(sample) ==
    [source_file |-> sample.source_file,
     interaction_id |-> sample.interaction_id,
     note |-> sample.content]

RECURSIVE add_samples_unchecked(_, _, _)
add_samples_unchecked(evidence, samples, i) ==
    IF i > Len(samples) THEN evidence
    ELSE add_samples_unchecked(Append(evidence, evidence_entry(samples[i])),
                               samples, i + 1)

RECURSIVE add_samples(_, _, _)
add_samples(evidence, samples, i) ==
    IF i > Len(samples) THEN evidence
    ELSE LET e == evidence_entry(samples[i])
             is_duplicate ==
                 \E k \in 1..Len(evidence) :
                     /\ evidence[k].source_file = e.source_file
                     /\ evidence[k].interaction_id = e.interaction_id
         IN  add_samples(IF is_duplicate THEN evidence
                         ELSE Append(evidence, e), samples, i + 1)

RECURSIVE add_sessions(_, _, _)
add_sessions(evidence_sessions, sessions, i) ==
    IF i > Len(sessions) THEN evidence_sessions
    ELSE LET is_duplicate ==
                 \E k \in 1..Len(evidence_sessions) :
                     /\ evidence_sessions[k].session_file
                            = sessions[i].session_file
                     /\ evidence_sessions[k].interaction_id
                            = sessions[i].interaction_id
         IN  add_sessions(IF is_duplicate THEN evidence_sessions
                          ELSE Append(evidence_sessions, sessions[i]),
                          sessions, i + 1)

\* apply_update on the skill it found
update_evidence(skill, update) ==
    LET items == IF skill.evidence.kind = "str"
                 THEN <<[source_file |-> "none", interaction_id |-> "none",
                         note |-> "old"]>>
                 ELSE skill.evidence.items
    IN  [session_count |-> update.session_count,
         evidence |->
            IF update.evidence_samples = <<>> THEN skill.evidence
            ELSE [kind |-> "list",
                  items |-> add_samples(items, update.evidence_samples, 1)],
         evidence_sessions |->
            add_sessions(skill.evidence_sessions,
                         update.evidence_sessions, 1)]

\* main: the approved updates of the report, applied in order
RECURSIVE apply_report(_, _, _)
apply_report(skill, suggested_updates, dry_run) ==
    LET approved_updates == SelectSeq(suggested_updates,
                                      LAMBDA u : u.approved = TRUE)
    IN  IF dry_run \/ approved_updates = <<>> THEN skill
        ELSE apply_report(update_evidence(skill, approved_updates[1]),
                          Tail(approved_updates), dry_run)

EvidenceSkills ==
    {[session_count |-> 1, evidence |-> ev, evidence_sessions |-> <<>>] :
        ev \in {[kind |-> "absent", items |-> <<>>],
                [kind |-> "str", items |-> <<>>],
                [kind |-> "list",
                 items |-> <<[source_file |-> "t1", interaction_id |-> "i1",
                              note |-> "c0"]>>]}}

InitEvidence ==
    /\ Idle
    /\ \E s \in EvidenceSkills :
          fin = [op |-> "evidence", initial |-> s, skill |-> s, again |-> s,
                 approved |-> {}, approved_sessions |-> {}, reports |-> 0]

ApplyReport ==
    \E u \in EvidenceUpdates, dry_run \in BOOLEAN :
        /\ fin.op = "evidence"
        /\ fin.reports < MaxReports
        /\ LET new == apply_report(fin.skill, <<u>>, dry_run)
               effective == u.approved /\ ~dry_run
           IN  fin' = [op |-> "evidence", initial |-> fin.initial,
                       skill |-> new,
                       again |-> apply_report(new, <<u>>, dry_run),
                       approved |-> fin.approved \cup
                           (IF effective
                            THEN {evidence_entry(u.evidence_samples[i]) :
                                     i \in 1..Len(u.evidence_samples)}
                            ELSE {}),
                       approved_sessions |-> fin.approved_sessions \cup
                           (IF effective
                            THEN {u.evidence_sessions[i] :
                                     i \in 1..Len(u.evidence_sessions)}
                            ELSE {}),
                       reports |-> fin.reports + 1]
        /\ UNCHANGED <<today, steps, updates, active, historical, lastOp,
                       report, verdict>>

SpecEvidence == InitEvidence /\ [][ApplyReport]_vars

\* ---------------------------------------------------------------- C17
AddedEntries(skill, initial) ==
    LET old == IF initial.evidence.kind = "list"
               THEN Len(initial.evidence.items)
               ELSE IF initial.evidence.kind = "str"
                       /\ skill.evidence.kind = "list" THEN 1 ELSE 0
    IN  {skill.evidence.items[i] :
            i \in (old + 1)..Len(skill.evidence.items)}

NoPairTwice(items) ==
    \A i, j \in 1..Len(items) :
        (/\ i < j
         /\ items[i].source_file = items[j].source_file
         /\ items[i].interaction_id = items[j].interaction_id) => FALSE

NoSessionTwice(sessions) ==
    \A i, j \in 1..Len(sessions) :
        (/\ i < j
         /\ sessions[i].session_file = sessions[j].session_file
         /\ sessions[i].interaction_id = sessions[j].interaction_id)
            => FALSE

\* C17: after any sequence of report applications every evidence and
\* evidence_sessions entry added to a skill comes from an approved update,
\* no (source_file, interaction_id) pair is added twice, and applying the
\* same approved update again leaves the skill record unchanged.
C17_ApprovedEvidenceOnce ==
    fin.op = "evidence"
        => /\ AddedEntries(fin.skill, fin.initial) \subseteq fin.approved
           /\ {fin.skill.evidence_sessions[i] :
                  i \in 1..Len(fin.skill.evidence_sessions)}
                 \subseteq fin.approved_sessions
           /\ NoPairTwice(fin.skill.evidence.items)
           /\ NoSessionTwice(fin.skill.evidence_sessions)
           /\ fin.again = fin.skill

\* An approved update whose two samples share a pair was applied to a skill
\* with string evidence: only the first of the two was added.
C17_Witness ==
    /\ fin.op = "evidence"
    /\ fin.reports = 2
    /\ fin.initial.evidence.kind = "str"
    /\ fin.skill.evidence.kind = "list"
    /\ Len(fin.skill.evidence.items) = 2
    /\ fin.skill.evidence.items[2].note = "c2"
    /\ fin.approved = {[source_file |-> "t1", interaction_id |-> "i1",
                        note |-> "c1"],
                       [source_file |-> "t1", interaction_id |-> "i1",
                        note |-> "c2"]}
    /\ fin.again = fin.skill

\* ------------------------- one decay pass over a file with two skills
PassAges == {10, 30, 45, 60, 95}
DecayedAgo == 70
PassTables == {Thresholds, TableDense}

\* a skill last seen r days ago; a decayed one was downgraded DecayedAgo
\* days ago and carries the flag of that downgrade
PassSkill(name, level, r, decayed) ==
    [Skill(name, level, "absent", 5, StartDay - r, FALSE)
     EXCEPT !.decay_applied = IF decayed THEN StartDay - DecayedAgo
                              ELSE NoDate,
            !.review_flags = IF decayed
                             THEN <<[trigger |-> "skill_decay",
                                     severity |-> "medium",
                                     message |-> "60 days inactive",
                                     added |-> NoDate]>>
                             ELSE <<>>]

InitPass ==
    /\ Idle
    /\ \E lx \in 0..3, rx \in PassAges, dx \in BOOLEAN,
          ly \in {1, 2}, ry \in {10, 45, 95}, dy \in BOOLEAN,
          t \in PassTables :
          fin = [op |-> "pass_in", thresholds |-> t,
                 before |-> Place(Place(EmptyDoc,
                                        PassSkill("X", lx, rx, dx), TechCat),
                                  PassSkill("Y", ly, ry, dy), Orch)]

PassCheck ==
    /\ fin.op = "pass_in"
    /\ LET r == decay_file(fin.before, today, fin.thresholds)
       IN  fin' = [op |-> "pass_out", thresholds |-> fin.thresholds,
                   before |-> fin.before, after |-> r.doc,
                   crash |-> r.crash, restoration |-> r.restoration,
                   decay |-> r.decay]
    /\ UNCHANGED <<today, steps, updates, active, historical, lastOp,
                   report, verdict>>

SpecPass == InitPass /\ [][PassCheck]_vars

EntryOf(doc, name) ==
    all_skill_entries(doc)[first_index(all_skill_entries(doc), name, 1)]

IsDecayFlag(f) == f.trigger \in {"skill_decay", "skill_decay_flag"}

\* ---------------------------------------------------------------- C18
\* C18: within one pass no skill is both restored and decayed: a skill the
\* restoration check restores receives no decay action in that pass.
C18_RestoredNotDecayed ==
    fin.op = "pass_out"
        => /\ NamesIn(fin.restoration) \cap NamesIn(fin.decay) = {}
           /\ \A n \in NamesIn(fin.restoration) :
                 /\ EntryOf(fin.after, n).decay_applied # today
                 /\ SelectSeq(EntryOf(fin.after, n).review_flags, IsDecayFlag)
                       = <<>>

\* A restored skill that has been inactive long enough for a decay action.
C18_Witness ==
    /\ fin.op = "pass_out"
    /\ "X" \in NamesIn(fin.restoration)
    /\ calculate_decay(EntryOf(fin.before, "X").level,
                       recency_of(EntryOf(fin.before, "X"), today),
                       fin.thresholds).decay_applied
    /\ "X" \notin NamesIn(fin.decay)
    /\ EntryOf(fin.after, "X").level = 1

\* ---------------------------------------------------------------- C19
\* the flag a decay action of the pass appended to the skill
AddedFlags(name) ==
    SubSeq(EntryOf(fin.after, name).review_flags,
           Len(EntryOf(fin.before, name).review_flags) + 1,
           Len(EntryOf(fin.after, name).review_flags))

ReachedThresholds(name) ==
    {fin.thresholds[i] : i \in {k \in 1..Len(fin.thresholds) :
        fin.thresholds[k].days
            <= recency_of(EntryOf(fin.before, name), today)}}

OneDecayFlag(name, trigger) ==
    /\ Len(AddedFlags(name)) = 1
    /\ AddedFlags(name)[1].trigger = trigger
    /\ \E t \in ReachedThresholds(name) :
          /\ AddedFlags(name)[1].severity = t.severity
          /\ AddedFlags(name)[1].message = t.message

\* C19: every decay action applied to a skill, downgrade or flag-only, sets
\* decay_applied to today and appends exactly one review flag with the
\* threshold's severity and message, with trigger skill_decay for a
\* downgrade and skill_decay_flag for a flag-only action.
C19_DecayRecorded ==
    fin.op = "pass_out"
        => \A i \in 1..Len(fin.decay) :
              LET d == fin.decay[i]
              IN  /\ EntryOf(fin.after, d.skill).decay_applied = today
                  /\ OneDecayFlag(d.skill, IF d.flag_only
                                           THEN "skill_decay_flag"
                                           ELSE "skill_decay")

\* C19 as the code has it: a flag-only action appends its flag and leaves
\* level and decay_applied as they were; every other action sets
\* decay_applied to today.
C19_DecayRecordedUnlessFlagOnly ==
    fin.op = "pass_out"
        => \A i \in 1..Len(fin.decay) :
              LET d == fin.decay[i]
                  old == EntryOf(fin.before, d.skill)
                  new == EntryOf(fin.after, d.skill)
              IN  /\ OneDecayFlag(d.skill, IF d.flag_only
                                           THEN "skill_decay_flag"
                                           ELSE "skill_decay")
                  /\ d.flag_only
                        => /\ new.decay_applied = old.decay_applied
                           /\ new.level = old.level
                  /\ ~d.flag_only
                        => /\ new.decay_applied = today
                           /\ new.level = d.new_level

\* One pass with a downgrade of X and a flag-only action on Y.
C19_Witness ==
    /\ fin.op = "pass_out"
    /\ \E i, j \in 1..Len(fin.decay) :
          /\ fin.decay[i].skill = "X" /\ ~fin.decay[i].flag_only
          /\ fin.decay[i].new_level < fin.decay[i].old_level
          /\ fin.decay[j].skill = "Y" /\ fin.decay[j].flag_only
    /\ EntryOf(fin.after, "X").decay_applied = today
    /\ EntryOf(fin.after, "Y").decay_applied = NoDate
    /\ AddedFlags("Y")[1].trigger = "skill_decay_flag"

\* ------------------------------ session_count, first_seen, last_seen
\* The input is the dates of the transcripts in which the skill is observed,
\* one element per transcript, in the order the directory lists them.
MaxTranscripts == 3

TranscriptDays == {10, 20, 30}
Observations ==
    UNION {[1..n -> TranscriptDays] : n \in 1..MaxTranscripts}
SessionPaths == {"transcript_analysis", "orchestration_ingestion",
                 "tech_stack_ingestion"}

DaysOf(dates) == {dates[i] : i \in 1..Len(dates)}
MinOf(S) == CHOOSE a \in S : \A b \in S : a <= b
MaxOf(S) == CHOOSE a \in S : \A b \in S : a >= b

\* analyze_skill_temporal.py: the files are sorted by name, which holds the
\* date; the loop keeps the first and the last date it meets
get_transcript_files(dates) == SortSeq(dates, LAMBDA a, b : a < b)

temporal_analysis(dates) ==
    LET sessions == get_transcript_files(dates)
    IN  [first_seen |-> sessions[1],
         last_seen |-> sessions[Len(sessions)],
         session_count |-> Cardinality(DaysOf(sessions))]

\* skill_ingestion.analyze_temporal_metadata: one element of
\* sessions_with_skill per transcript that shows the skill
orchestration_metadata(dates) ==
    LET sessions_with_skill == dates
    IN  [first_seen |-> MinOf(DaysOf(sessions_with_skill)),
         last_seen |-> MaxOf(DaysOf(sessions_with_skill)),
         session_count |-> Len(sessions_with_skill)]

\* the "sessions" list of a tech_stack skill: a date is appended only when
\* it is not in the list yet
RECURSIVE merge_sessions(_, _, _)
merge_sessions(sessions, dates, i) ==
    IF i > Len(dates) THEN sessions
    ELSE merge_sessions(IF dates[i] \in DaysOf(sessions) THEN sessions
                        ELSE Append(sessions, dates[i]), dates, i + 1)

generate_temporal_metadata_for_tech_stack(dates) ==
    LET sessions == merge_sessions(<<>>, dates, 1)
    IN  [first_seen |-> MinOf(DaysOf(sessions)),
         last_seen |-> MaxOf(DaysOf(sessions)),
         session_count |-> Len(sessions)]

InitSessions ==
    /\ Idle
    /\ \E dates \in Observations, path \in SessionPaths :
          fin = [op |-> "sessions_in", path |-> path, dates |-> dates]

SessionsCheck ==
    /\ fin.op = "sessions_in"
    /\ fin' = [op |-> "sessions_out", path |-> fin.path, dates |-> fin.dates,
               metadata |->
                   IF fin.path = "transcript_analysis"
                   THEN temporal_analysis(fin.dates)
                   ELSE IF fin.path = "orchestration_ingestion"
                   THEN orchestration_metadata(fin.dates)
                   ELSE generate_temporal_metadata_for_tech_stack(fin.dates)]
    /\ UNCHANGED <<today, steps, updates, active, historical, lastOp,
                   report, verdict>>

SpecSessions == InitSessions /\ [][SessionsCheck]_vars

\* ---------------------------------------------------------------- C20
\* C20: on every path that produces temporal metadata session_count is the
\* number of distinct dates on which the skill was observed, and first_seen
\* and last_seen are the minimum and the maximum of those dates.
C20_DistinctDates ==
    fin.op = "sessions_out"
        => /\ fin.metadata.session_count = Cardinality(DaysOf(fin.dates))
           /\ fin.metadata.first_seen = MinOf(DaysOf(fin.dates))
           /\ fin.metadata.last_seen = MaxOf(DaysOf(fin.dates))

\* ------------------------------------------- review flags and their date
\* skill_ingestion.create_review_flag
create_review_flag(trigger, severity, message, now) ==
    [trigger |-> trigger, severity |-> severity, message |-> message,
     added |-> now]

\* a skill as PassSkill makes it, whose earlier decay flag was given its
\* date by hand
DatedSkill(name, level, r, decayed) ==
    [PassSkill(name, level, r, decayed)
     EXCEPT !.review_flags =
        IF decayed
        THEN <<create_review_flag("skill_decay", "medium",
                                  "60 days inactive", StartDay - DecayedAgo)>>
        ELSE <<>>]

IngestionTriggers == {"single_session_only", "single_session_level_1"}

InitFlags ==
    /\ Idle
    /\ \E lx \in 0..3, rx \in PassAges, dx \in BOOLEAN,
          ry \in {10, 45, 95}, t \in PassTables :
          fin = [op |-> "flags_in", thresholds |-> t,
                 before |-> Place(Place(EmptyDoc,
                                        DatedSkill("X", lx, rx, dx), TechCat),
                                  DatedSkill("Y", 2, ry, FALSE), Orch)]

FlagsOf(doc, name) == EntryOf(doc, name).review_flags

\* one decay pass over the file
FlagsByDecayPass ==
    /\ fin.op = "flags_in"
    /\ LET r == decay_file(fin.before, today, fin.thresholds)
       IN  fin' = [op |-> "flags_out", by |-> "decay_pass",
                   before |-> fin.before,
                   flags |-> [n \in Names |-> FlagsOf(r.doc, n)],
                   restored |-> NamesIn(r.restoration),
                   decayed |-> NamesIn(r.decay),
                   moved |-> {}]
    /\ UNCHANGED <<today, steps, updates, active, historical, lastOp,
                   report, verdict>>

\* a flag made by create_review_flag, appended to the first skill
FlagsByIngestion ==
    \E trigger \in IngestionTriggers :
        /\ fin.op = "flags_in"
        /\ fin' = [op |-> "flags_out", by |-> "ingestion",
                   before |-> fin.before,
                   flags |-> [n \in Names |->
                       IF n = "X"
                       THEN Append(FlagsOf(fin.before, n),
                                   create_review_flag(trigger, "high",
                                       "Single session", today))
                       ELSE FlagsOf(fin.before, n)],
                   restored |-> {}, decayed |-> {}, moved |-> {}]
        /\ UNCHANGED <<today, steps, updates, active, historical, lastOp,
                       report, verdict>>

\* one lifecycle pass with the file as the Active file (demotions) or as
\* the Historical file (promotions)
FlagsByLifecycle ==
    \E part \in {"active", "historical"} :
        /\ fin.op = "flags_in"
        /\ LET a == IF part = "active" THEN fin.before ELSE EmptyDoc
               h == IF part = "historical" THEN fin.before ELSE EmptyDoc
               r == process_skill_status_changes(a, h, today)
           IN  fin' = [op |-> "flags_out",
                       by |-> IF part = "active" THEN "demotion"
                              ELSE "promotion",
                       before |-> fin.before,
                       flags |-> [n \in Names |->
                           IF r.ok THEN RecordOf(r.a, r.h, n).review_flags
                           ELSE FlagsOf(fin.before, n)],
                       restored |-> {}, decayed |-> {},
                       moved |-> IF r.ok
                                 THEN NamesIn(r.promotions)
                                      \cup NamesIn(r.demotions)
                                 ELSE {}]
        /\ UNCHANGED <<today, steps, updates, active, historical, lastOp,
                       report, verdict>>

SpecFlags ==
    InitFlags /\ [][FlagsByDecayPass \/ FlagsByIngestion
                    \/ FlagsByLifecycle]_vars

AllDated(flags) == \A i \in 1..Len(flags) : IsDate(flags[i].added)

\* ---------------------------------------------------------------- C21
\* C21: every review flag the engine appends to a skill record (downgrade
\* decay flag, flag-only decay flag, restoration flag, ingestion flag)
\* carries an added date: a record whose flags were all dated has only
\* dated flags afterwards.
C21_FlagsDated ==
    fin.op = "flags_out"
        => \A n \in Names :
              AllDated(FlagsOf(fin.before, n)) => AllDated(fin.flags[n])

\* ---------------------------------------------------------------- C22
\* number of times a flag occurs in a list of flags
FlagCount(flags, f) == Cardinality({i \in 1..Len(flags) : flags[i] = f})

KeepsFlags(old, new) ==
    \A i \in 1..Len(old) : FlagCount(new, old[i]) >= FlagCount(old, old[i])

\* C22: review flags are append-only until resolved: no engine operation
\* (decay, restoration, promotion, demotion) removes an unresolved review
\* flag from a skill record.  No flag of SpecFlags has been resolved.
C22_FlagsAppendOnly ==
    fin.op = "flags_out"
        => \A n \in Names : KeepsFlags(FlagsOf(fin.before, n), fin.flags[n])

\* --------------------------- a skill whose last_seen may be unusable
StaleLastSeen == {NoDate, BadDate, StartDay - 95, StartDay - 10}
StaleCounts == {1, 2, 5, 12}

StaleSkill(name, level, sc, ls, validated) ==
    [Skill(name, level, "absent", sc, ls, validated)
     EXCEPT !.first_seen = NoDate]

InitStale ==
    /\ Idle
    /\ \E l \in 0..3, sc \in StaleCounts, ls \in StaleLastSeen,
          v \in BOOLEAN, t \in PassTables :
          fin = [op |-> "stale_in", thresholds |-> t,
                 skill |-> StaleSkill("X", l, sc, ls, v)]

\* the decay pass over a file that holds the skill
StaleDecay ==
    /\ fin.op = "stale_in"
    /\ LET r == decay_file(Place(EmptyDoc, fin.skill, TechCat), today,
                           fin.thresholds)
       IN  fin' = [op |-> "stale_out", by |-> "decay",
                   thresholds |-> fin.thresholds, skill |-> fin.skill,
                   after |-> IF r.crash THEN fin.skill
                             ELSE EntryOf(r.doc, "X"),
                   moved |-> FALSE]
    /\ UNCHANGED <<today, steps, updates, active, historical, lastOp,
                   report, verdict>>

\* the lifecycle pass with the skill in the Active file
StaleDemotion ==
    /\ fin.op = "stale_in"
    /\ LET r == process_skill_status_changes(
                    Place(EmptyDoc, fin.skill, TechCat), EmptyDoc, today)
       IN  fin' = [op |-> "stale_out", by |-> "demotion",
                   thresholds |-> fin.thresholds, skill |-> fin.skill,
                   after |-> IF r.ok THEN RecordOf(r.a, r.h, "X")
                             ELSE fin.skill,
                   moved |-> r.ok /\ Occurrences(r.h, "X") > 0]
    /\ UNCHANGED <<today, steps, updates, active, historical, lastOp,
                   report, verdict>>

SpecStale == InitStale /\ [][StaleDecay \/ StaleDemotion]_vars

\* ---------------------------------------------------------------- C23
\* the recency the decay engine gives a skill it cannot date
MaximallyStale == 9999

\* C23: a skill whose last_seen is missing or malformed is treated as
\* maximally stale by the decay and the demotion decisions: the decay pass
\* leaves it at the level of a skill inactive beyond every threshold, and
\* the lifecycle pass demotes it as inactive.
C23_UndatedIsStale ==
    (fin.op = "stale_out" /\ ~IsDate(fin.skill.last_seen))
        => /\ fin.by = "decay"
                => fin.after.level =
                     calculate_decay(fin.skill.level, MaximallyStale,
                                     fin.thresholds).new_level
           /\ fin.by = "demotion" => fin.moved

\* ------------------- a decay pass over a file with one malformed skill
MalformedLastSeen == {NoDate, BadDate, StartDay - 45}
MalformedDecayApplied == {NoDate, BadDate, StartDay - DecayedAgo}

IsMalformed(skill) ==
    \/ ~IsDate(skill.last_seen)
    \/ skill.decay_applied = BadDate

InitMalformed ==
    /\ Idle
    /\ \E lx \in {1, 2}, ls \in MalformedLastSeen,
          da \in MalformedDecayApplied,
          ly \in 1..3, ry \in PassAges, dy \in BOOLEAN, t \in PassTables :
          fin = [op |-> "malformed_in", thresholds |-> t,
                 x |-> [StaleSkill("X", lx, 5, ls, FALSE)
                        EXCEPT !.decay_applied = da],
                 y |-> PassSkill("Y", ly, ry, dy)]

\* the pass over the file with both skills, and over the file with Y alone;
\* a pass that raises writes nothing
MalformedPass ==
    /\ fin.op = "malformed_in"
    /\ LET both == decay_file(Place(Place(EmptyDoc, fin.x, TechCat),
                                    fin.y, Orch), today, fin.thresholds)
           alone == decay_file(Place(EmptyDoc, fin.y, Orch), today,
                               fin.thresholds)
       IN  fin' = [op |-> "malformed_out", x |-> fin.x, y |-> fin.y,
                   aborted |-> both.crash,
                   y_after |-> IF both.crash THEN fin.y
                               ELSE EntryOf(both.doc, "Y"),
                   y_alone |-> EntryOf(alone.doc, "Y")]
    /\ UNCHANGED <<today, steps, updates, active, historical, lastOp,
                   report, verdict>>

SpecMalformed == InitMalformed /\ [][MalformedPass]_vars

\* ---------------------------------------------------------------- C24
\* C24: a missing or unparseable last_seen or decay_applied on one skill
\* never aborts a pass, and every other skill ends in the state it would
\* reach if the malformed skill were absent.
C24_MalformedIsolated ==
    (fin.op = "malformed_out" /\ IsMalformed(fin.x))
        => /\ ~fin.aborted
           /\ fin.y_after = fin.y_alone

\* ---------------------------------------------------------------- C25
\* a leverage context whose four signal counts are all zero
ZeroLeverage(skill_data) ==
    /\ skill_data.has_leverage
    /\ skill_data.strategic = 0 /\ skill_data.directive = 0
    /\ skill_data.evaluative = 0 /\ skill_data.iterative = 0

\* C25: the weighted confidence is 0 whenever the leverage-context counts
\* of a skill are all zero, whatever its session count and evidence depth.
C25_ZeroLeverageZeroScore ==
    (fin.op = "weighted_out" /\ ZeroLeverage(fin.skill_data))
        => fin.twice = 0

\* C25 as the code has it: with all four counts zero the base score is 0,
\* whatever the detection count and the learning count, and the score is
\* the session bonus plus the depth score minus the quality penalty, not
\* below 0 and at most 60 (120 half points).
C25_ZeroLeverageZeroBase ==
    (fin.op = "weighted_out" /\ ZeroLeverage(fin.skill_data))
        => LET sd == fin.skill_data
               penalty == IF sd.quality > 0
                          THEN (sd.passive * 20) \div sd.quality ELSE 0
               rest == Min2(fin.session_count * 5, 30)
                       + Min2(sd.evidence * 3, 30) - penalty
           IN  /\ fin.twice = 2 * Max2(0, rest)
               /\ fin.twice <= 2 * 60

\* Zero leverage with many detections, six sessions and twelve evidence
\* items: the score is 60.
C25_Witness ==
    /\ fin.op = "weighted_out"
    /\ ZeroLeverage(fin.skill_data)
    /\ fin.skill_data.count = 100
    /\ fin.session_count = 6
    /\ fin.skill_data.evidence = 12
    /\ fin.twice = 2 * 60

\* ---------------------------------------------------------------- C26
\* the skills the decay engine and the level gates read from a document
ReadByDecay(doc) == NamesIn(all_skill_entries(doc))
ReadByGates(a, h) == NamesIn(get_all_skills(a, h))

\* C26: after a lifecycle pass every skill it moved sits in the destination
\* document in the layout the other components read, so the decay engine
\* and the level gates still process it.
C26_MovedSkillReadable ==
    lastOp = "lifecycle"
        => /\ \A n \in NamesIn(report.promotions) :
                 n \in ReadByDecay(active) /\ n \in ReadByGates(active, historical)
           /\ \A n \in NamesIn(report.demotions) :
                 n \in ReadByDecay(historical)
                 /\ n \in ReadByGates(active, historical)

\* ------------------------------- repeated lifecycle passes, no new input
CycleLevels == 0..3
CycleCounts == {2, 5}

CycleSkill(name, level, sc) ==
    Skill(name, level, "absent", sc, StartDay - 3, FALSE)

\* two skills, each in the Active or the Historical file, under
\* skills -> tech_stack -> frameworks or skills -> orchestration
InitCycle ==
    /\ Idle
    /\ \E lx \in CycleLevels, ly \in {1, 3}, sx \in CycleCounts,
          xa \in BOOLEAN, ya \in BOOLEAN, fx \in FamSet, fy \in FamSet :
          LET x == CycleSkill("X", lx, sx)
              y == CycleSkill("Y", ly, 5)
              a1 == IF xa THEN Place(EmptyDoc, x, fx) ELSE EmptyDoc
              h1 == IF xa THEN EmptyDoc ELSE Place(EmptyDoc, x, fx)
          IN  fin = [op |-> "cycle",
                     a |-> IF ya THEN Place(a1, y, fy) ELSE a1,
                     h |-> IF ya THEN h1 ELSE Place(h1, y, fy),
                     crashed |-> FALSE]

\* one run of manage_skill_status.py on the files the last run left; the
\* files are written only when a move was decided and every move succeeded
CyclePass ==
    /\ fin.op = "cycle"
    /\ LET r == process_skill_status_changes(fin.a, fin.h, today)
       IN  fin' = [op |-> "cycle",
                   a |-> IF r.ok THEN r.a ELSE fin.a,
                   h |-> IF r.ok THEN r.h ELSE fin.h,
                   crashed |-> ~r.ok]
    /\ UNCHANGED <<today, steps, updates, active, historical, lastOp,
                   report, verdict>>

SpecCycle == InitCycle /\ [][CyclePass]_vars

\* the pass is run again and again: a run that would change the files is
\* eventually made
FairCycle == SpecCycle /\ WF_vars(CyclePass)

\* ---------------------------------------------------------------- C27
\* a run over the files leaves both as they are: it moves no skill, or it
\* raises before it writes
CycleSettled ==
    LET r == process_skill_status_changes(fin.a, fin.h, today)
    IN  ~r.ok \/ (r.a = fin.a /\ r.h = fin.h)

\* C27: with no new evidence and no manual edits, repeated lifecycle passes
\* reach a fixed point: from some pass on, a pass leaves both files as they
\* are, so no skill alternates between Active and Historical forever.
C27_ReachesFixedPoint == <>[]CycleSettled

\* --------------------------- repeated decay passes over an unused skill
MaxPasses == 3
MaxWaits == 2
ErosionAges == {10, 45, 60, 95}

\* a file holding one skill that is never seen again
InitErosion ==
    /\ Idle
    /\ \E l \in DecayLevels, r \in ErosionAges, t \in PassTables :
          fin = [op |-> "erosion", thresholds |-> t,
                 skill |-> Skill("X", l, "absent", 5, StartDay - r, FALSE),
                 doc |-> Place(EmptyDoc,
                               Skill("X", l, "absent", 5, StartDay - r, FALSE),
                               TechCat),
                 now |-> StartDay, passes |-> 0, waits |-> 0]

\* one run of analyze_skill_temporal.py --apply-decay on the file the last
\* run left; a run that raises writes nothing
ErosionPass ==
    /\ fin.op = "erosion"
    /\ fin.passes < MaxPasses
    /\ LET r == decay_file(fin.doc, fin.now, fin.thresholds)
       IN  fin' = [fin EXCEPT !.doc = IF r.crash THEN @ ELSE r.doc,
                              !.passes = @ + 1]
    /\ UNCHANGED <<today, steps, updates, active, historical, lastOp,
                   report, verdict>>

\* time passes between two runs
ErosionWait ==
    /\ fin.op = "erosion"
    /\ fin.waits < MaxWaits
    /\ fin' = [fin EXCEPT !.now = @ + DayStep, !.waits = @ + 1]
    /\ UNCHANGED <<today, steps, updates, active, historical, lastOp,
                   report, verdict>>

SpecErosion == InitErosion /\ [][ErosionPass \/ ErosionWait]_vars

\* ---------------------------------------------------------------- C28
LevelsLost == fin.skill.level - EntryOf(fin.doc, "X").level
Inactive == fin.now - fin.skill.last_seen

\* C28: over any number of decay passes with no new evidence, the levels a
\* skill has lost never exceed the number of downgrade thresholds its
\* inactivity has crossed, however often the pass runs.
C28_LossBounded ==
    fin.op = "erosion"
        => LevelsLost <= Downgrades(fin.thresholds, Inactive)

\* ---------------- successive ingestion runs, each followed by the apply
\* the days of the transcripts that can appear in the transcript directory;
\* every transcript shows the skill X and its session id is its day
RunDays == {10, 20, 30, 40}

\* what the patterns find of the skill in one transcript
PerTranscript ==
    {[strategic |-> 14, count |-> 4, evidence |-> 10],
     [strategic |-> 1, count |-> 1, evidence |-> 1]}

\* main(): all_detections[skill_name] summed over the analysed transcripts
detections(found, n) ==
    [has_leverage |-> TRUE, strategic |-> n * found.strategic,
     directive |-> 0, evaluative |-> 0, iterative |-> 0, learning |-> 0,
     count |-> n * found.count, passive |-> 0, quality |-> 0,
     evidence |-> n * found.evidence]

RECURSIVE SeqOfDays(_)
SeqOfDays(S) ==
    IF S = {} THEN <<>> ELSE <<MinOf(S)>> \o SeqOfDays(S \ {MinOf(S)})

\* main(): the transcripts that are not in the ingestion history
unprocessed(disk, history) ==
    {d \in disk : ~is_session_processed(history, d)}

RECURSIVE mark_all(_, _, _, _)
mark_all(history, ids, i, now) ==
    IF i > Len(ids) THEN history
    ELSE mark_all(mark_session_processed(history, ids[i], "skill-analysis",
                                         now), ids, i + 1, now)

\* generate_report for the one skill: nothing is suggested below 70
\* (calculate_confidence is held in half points), else the temporal
\* metadata of the analysed transcripts
suggested_updates(fam, found, dates) ==
    LET n == Len(dates)
        tm == IF fam = TechCat
              THEN generate_temporal_metadata_for_tech_stack(dates)
              ELSE orchestration_metadata(dates)
    IN  IF calculate_confidence(detections(found, n), n) < 2 * 70 THEN <<>>
        ELSE <<[skill_name |-> "X", first_seen |-> tm.first_seen,
                last_seen |-> tm.last_seen,
                session_count |-> tm.session_count,
                frequency |-> ingestion_frequency(tm.session_count)]>>

InitRuns ==
    /\ Idle
    /\ \E fam \in FamSet, found \in PerTranscript, first \in RunDays :
          fin = [op |-> "runs", fam |-> fam, found |-> found,
                 disk |-> {first},
                 history |-> [processed_sessions |-> <<>>],
                 report |-> <<>>,
                 doc |-> Place(EmptyDoc,
                               Skill("X", 2, "absent", 1, first, FALSE), fam),
                 before |-> Skill("X", 2, "absent", 1, first, FALSE),
                 applied |-> 0, pending |-> FALSE, skipped |-> FALSE]

\* a new session is recorded
NewTranscript ==
    \E d \in RunDays :
        /\ fin.op = "runs"
        /\ d \notin fin.disk
        /\ fin' = [fin EXCEPT !.disk = @ \cup {d}]
        /\ UNCHANGED <<today, steps, updates, active, historical, lastOp,
                       report, verdict>>

\* one run of skill_ingestion.py with --skip-processed (the default); with
\* nothing new to analyse it returns before it writes anything
IngestRun ==
    /\ fin.op = "runs"
    /\ unprocessed(fin.disk, fin.history) # {}
    /\ LET transcripts == SeqOfDays(unprocessed(fin.disk, fin.history))
       IN  fin' = [fin EXCEPT
                     !.report = suggested_updates(fin.fam, fin.found,
                                                  transcripts),
                     !.history = mark_all(@, transcripts, 1, today),
                     !.pending = suggested_updates(fin.fam, fin.found,
                                                   transcripts) # <<>>,
                     !.skipped = @ \/ fin.pending]
    /\ UNCHANGED <<today, steps, updates, active, historical, lastOp,
                   report, verdict>>

\* apply_approved_updates.py on the report of the last run, every
\* suggested update approved; pending says that the report of the last run
\* is not applied yet, skipped that some report was replaced unapplied
ApplyApproved ==
    /\ fin.op = "runs"
    /\ fin.report # <<>>
    /\ LET r == apply_update(fin.doc, fin.report[1])
       IN  fin' = [fin EXCEPT !.doc = r.doc,
                              !.before = EntryOf(fin.doc, "X"),
                              !.applied = Min2(@ + 1, 2),
                              !.pending = FALSE]
    /\ UNCHANGED <<today, steps, updates, active, historical, lastOp,
                   report, verdict>>

SpecRuns == InitRuns /\ [][NewTranscript \/ IngestRun \/ ApplyApproved]_vars

\* ---------------------------------------------------------------- C29
\* C29: over successive ingestion runs whose approved updates are applied,
\* the stored session_count never decreases and the stored first_seen never
\* moves later.
C29_CountsMonotone ==
    (fin.op = "runs" /\ fin.applied > 0 /\ ~fin.skipped)
        => /\ EntryOf(fin.doc, "X").session_count >= fin.before.session_count
           /\ EntryOf(fin.doc, "X").first_seen <= fin.before.first_seen

\* ------ cache monitor and skill ingestion on the shared ingestion history
\* Both programs read and write ledger/_meta/ingestion_history.yaml; each is
\* a process of its own (the monitor is started by launchd every five
\* minutes) and neither locks the file.  A run is two steps: it loads the
\* history, and later it saves its marked copy.
SharedIds == {"s1", "s2"}
NoHistory == [processed_sessions |-> <<>>]

RECURSIVE SeqOfIds(_)
SeqOfIds(S) ==
    IF S = {} THEN <<>>
    ELSE LET id == CHOOSE x \in S : TRUE IN <<id>> \o SeqOfIds(S \ {id})

RECURSIVE mark_each(_, _, _, _, _)
mark_each(history, ids, i, source, now) ==
    IF i > Len(ids) THEN history
    ELSE mark_each(mark_session_processed(history, ids[i], source, now),
                   ids, i + 1, source, now)

\* file     : the history file
\* disk     : the sessions recorded so far (cache files with a sessionId)
\* mon, ing : "idle", or "loaded" between the load and the save of a run
\* mon_new  : the recently modified cache files of the monitor run
\* *_history: the copy of the history the run holds in memory
\* analyzed : the sessions some skill-ingestion run has analysed
\* skipped  : the sessions some skill-ingestion run counted as already
\*            analysed
InitShared ==
    /\ Idle
    /\ fin = [op |-> "shared", file |-> NoHistory, disk |-> {},
              mon |-> "idle", mon_new |-> {}, mon_history |-> NoHistory,
              ing |-> "idle", transcripts |-> {}, ing_history |-> NoHistory,
              analyzed |-> {}, skipped |-> {}]

RecordSession ==
    \E id \in SharedIds :
        /\ fin.op = "shared"
        /\ id \notin fin.disk
        /\ fin' = [fin EXCEPT !.disk = @ \cup {id}]
        /\ UNCHANGED <<today, steps, updates, active, historical, lastOp,
                       report, verdict>>

\* incremental_ingest: find_new_sessions and load_ingestion_history
MonitorLoad ==
    \E new_files \in SUBSET fin.disk :
        /\ fin.op = "shared"
        /\ fin.mon = "idle"
        /\ new_files # {}
        /\ fin' = [fin EXCEPT !.mon = "loaded", !.mon_new = new_files,
                              !.mon_history = fin.file]
        /\ UNCHANGED <<today, steps, updates, active, historical, lastOp,
                       report, verdict>>

\* incremental_ingest: the loop over new_files, then the save when at least
\* one session was marked
MonitorSave ==
    /\ fin.op = "shared"
    /\ fin.mon = "loaded"
    /\ LET h == mark_each(fin.mon_history, SeqOfIds(fin.mon_new), 1,
                          "claude-code-cache", today)
       IN  fin' = [fin EXCEPT !.mon = "idle", !.mon_new = {},
                              !.mon_history = NoHistory,
                              !.file = IF h # fin.mon_history THEN h ELSE @]
    /\ UNCHANGED <<today, steps, updates, active, historical, lastOp,
                   report, verdict>>

\* skill_ingestion.main: load_ingestion_history, parse_transcripts and the
\* filter on is_session_processed; with nothing left it returns
IngestLoad ==
    /\ fin.op = "shared"
    /\ fin.ing = "idle"
    /\ fin.disk # {}
    /\ LET transcripts == unprocessed(fin.disk, fin.file)
       IN  fin' = [fin EXCEPT
                     !.ing = IF transcripts = {} THEN "idle" ELSE "loaded",
                     !.transcripts = transcripts,
                     !.ing_history = IF transcripts = {} THEN NoHistory
                                     ELSE fin.file,
                     !.skipped = @ \cup (fin.disk \ transcripts)]
    /\ UNCHANGED <<today, steps, updates, active, historical, lastOp,
                   report, verdict>>

\* skill_ingestion.main: the analysis of the kept transcripts, the marking
\* of each and save_ingestion_history
IngestSave ==
    /\ fin.op = "shared"
    /\ fin.ing = "loaded"
    /\ fin' = [fin EXCEPT
                 !.ing = "idle", !.transcripts = {},
                 !.ing_history = NoHistory,
                 !.analyzed = @ \cup fin.transcripts,
                 !.file = mark_each(fin.ing_history,
                                    SeqOfIds(fin.transcripts), 1,
                                    "skill-analysis", today)]
    /\ UNCHANGED <<today, steps, updates, active, historical, lastOp,
                   report, verdict>>

SharedNext ==
    RecordSession \/ MonitorLoad \/ MonitorSave \/ IngestLoad \/ IngestSave

SpecShared == InitShared /\ [][SharedNext]_vars

\* every session is recorded at some time, the monitor finishes the run it
\* started, and skill ingestion is run again and again
FairShared ==
    /\ SpecShared
    /\ WF_vars(RecordSession)
    /\ WF_vars(MonitorSave)
    /\ WF_vars(IngestLoad)
    /\ WF_vars(IngestSave)

\* ---------------------------------------------------------------- C30
\* C30: skill ingestion skips a session as already analysed only if an
\* earlier skill-ingestion run analysed it, and under any interleaving of
\* cache-monitor runs and skill-ingestion runs on the shared history every
\* session with a session id is analysed for skills at least once.
C30_EverySessionAnalyzed ==
    /\ [](fin.skipped \subseteq fin.analyzed)
    /\ \A id \in SharedIds : <>(id \in fin.analyzed)

====
